---- MODULE Spec2Model ----
(***************************************************************************)
(* TinyShell-NG: command matching / dispatch engine, line editor with      *)
(* history ring, privilege gate and menu navigator, modelled from          *)
(* src/tinysh.c and src/tinysh_menu.c.                                     *)
(*                                                                         *)
(* C strings are sequences of characters (the bytes before the first NUL); *)
(* a character is a one-letter string, control characters are the named    *)
(* atoms below.                                                            *)
(***************************************************************************)
EXTENDS Integers, Sequences, FiniteSets, TLC

VARIABLES
  PARTIAL_MATCH,        \* build option (project-conf.h), fixed by Init
  HISTORY_DEPTH,        \* build option (project-conf.h), fixed by Init
  input_buffers,        \* tinysh.c: history ring, slot -> line
  cur_buf_index,        \* tinysh.c: ring cursor
  cur_index,            \* tinysh.c: cursor / length of the live line
  cur_cmd_ctx,          \* tinysh.c: dispatch context (0 = none)
  context_buffer,       \* tinysh.c: breadcrumb
  cur_context,          \* tinysh.c: breadcrumb write index
  tinysh_auth_level,    \* tinysh.c: privilege level
  tinyshell_active,     \* tinysh.c: active flag
  tinysh_arg,           \* tinysh.c: argument handed to the running handler
  in_menu_mode,         \* tinysh_menu.c
  waiting_for_keypress, \* tinysh_menu.c
  collecting_arguments, \* tinysh_menu.c
  pending_function_arg, \* tinysh_menu.c
  arg_buffer,           \* tinysh_menu.c
  arg_buffer_index,     \* tinysh_menu.c
  arg_title,            \* tinysh_menu.c
  in_escape_seq,        \* tinysh_menu.c (static local of process_char)
  escape_char_count,    \* tinysh_menu.c (static local of process_char)
  menu_state,           \* tinysh_menu.c
  submenu_count,        \* tinysh_menu.c
  cmd_submenus,         \* tinysh_menu.c: pool of synthesized submenus
  root_cmd,             \* tinysh.c: the registered command descriptors
  menus,                \* tinysh_menuconf.c + tinysh_menu.c: the menus that exist
  calls,                \* handler invocations made by the last input character
  dispatch,             \* what exec_command_line did for the last input character
  fed,                  \* the characters of a session played from a script
  m_sib, m_in, m_out,   \* arguments and result of the matching functions
  lib_in, lib_out       \* arguments and result of a library function the host calls

cfgVars   == <<PARTIAL_MATCH, HISTORY_DEPTH, root_cmd, menus>>
shellVars == <<input_buffers, cur_buf_index, cur_index, cur_cmd_ctx,
               context_buffer, cur_context, tinysh_auth_level,
               tinyshell_active, tinysh_arg>>
menuVars  == <<in_menu_mode, waiting_for_keypress, collecting_arguments,
               pending_function_arg, arg_buffer, arg_buffer_index, arg_title,
               in_escape_seq, escape_char_count, menu_state, submenu_count,
               cmd_submenus>>
obsVars   == <<calls, dispatch, fed>>
matchVars == <<m_sib, m_in, m_out, lib_in, lib_out>>
vars      == <<cfgVars, shellVars, menuVars, obsVars, matchVars>>

-----------------------------------------------------------------------------
(* Characters *)
SP    == " "
CR    == "<CR>"
BS    == "<BS>"
ESC   == "<ESC>"
TAB   == "<TAB>"
CTRLP == "<^P>"
CTRLN == "<^N>"
CTRLD == "<^D>"
TOPCHAR == "/"
\* the terminator of a string
NUL   == "<NUL>"

(* Sizes. The build's values (256, 8) are scaled down so that the clamps   *)
(* are within reach of the input lengths explored.                         *)
BUFFER_SIZE == 8
MAX_ARGS    == 3

AUTOCOMPLATION == 1

TINYSH_AUTH_NONE  == 0
TINYSH_AUTH_ADMIN == 1

(* The compiled-in secret (a build option; shortened). *)
DEFAULT_ADMIN_PASSWORD == <<"p", "w">>

-----------------------------------------------------------------------------
(* String helpers: the C idioms on NUL-terminated buffers *)

\* s + n : the string starting n characters further
Drop(s, n) == IF n >= Len(s) THEN <<>> ELSE SubSeq(s, n + 1, Len(s))
Take(s, n) == IF n >= Len(s) THEN s ELSE SubSeq(s, 1, n)

\* line[i] = c; line[i+1] = 0   (i counted from 0)
StrPut(s, i, c) == IF i > Len(s) THEN s ELSE Take(s, i) \o <<c>>
\* line[i] = 0
StrCut(s, i) == Take(s, i)

\* while(*str==' ') str++;
RECURSIVE SkipSpaces(_)
SkipSpaces(s) ==
  IF s # <<>> /\ Head(s) = SP THEN SkipSpaces(Tail(s)) ELSE s

\* while(*str && *str!=' ') str++;
RECURSIVE SkipToken(_)
SkipToken(s) ==
  IF s # <<>> /\ Head(s) # SP THEN SkipToken(Tail(s)) ELSE s

-----------------------------------------------------------------------------
(* Matching engine *)
NULLMATCH == "NULLMATCH"
FULLMATCH == "FULLMATCH"
PARTMATCH == "PARTMATCH"
UNMATCH   == "UNMATCH"
MATCH     == "MATCH"
AMBIG     == "AMBIG"

\* strstart with the partial-match policy always on (the #if taken the wrong way)
RECURSIVE strstart_nopolicy(_, _, _)
strstart_nopolicy(s1, s2, pm) ==
  IF s1 # <<>> /\ s2 # <<>> /\ Head(s1) = Head(s2)
  THEN strstart_nopolicy(Tail(s1), Tail(s2), pm)
  ELSE IF s2 = <<>> \/ Head(s2) = SP
       THEN IF s1 = <<>> THEN FULLMATCH ELSE PARTMATCH
       ELSE UNMATCH

\* int strstart(const char *s1, const char *s2); pm is PARTIAL_MATCH
RECURSIVE strstart(_, _, _)
strstart(s1, s2, pm) ==
  IF s1 # <<>> /\ s2 # <<>> /\ Head(s1) = Head(s2)
  THEN strstart(Tail(s1), Tail(s2), pm)
  ELSE IF s2 = <<>> \/ Head(s2) = SP
       THEN IF s1 = <<>> THEN FULLMATCH
            ELSE IF pm > 0 THEN PARTMATCH ELSE UNMATCH
       ELSE UNMATCH

\* parse_command that takes the first partial candidate without looking for a
\* second one
RECURSIVE parse_scan_first(_, _, _, _, _, _)
parse_scan_first(names, _str, str, i, matched, pm) ==
  IF i > Len(names)
  THEN [ret |-> UNMATCH, cmd |-> 0, str |-> _str]
  ELSE IF strstart(names[i], str, pm) \in {FULLMATCH, PARTMATCH}
       THEN [ret |-> MATCH, cmd |-> i, str |-> SkipSpaces(SkipToken(str))]
       ELSE parse_scan_first(names, _str, str, i + 1, matched, pm)

\* The for loop of parse_command over the sibling chain `names`, from sibling i,
\* with matched_cmd = matched (0 = none). str is the input after the leading
\* blanks, _str the input as the caller passed it. Result: the return value,
\* the index of the sibling left in *_cmd (0: *_cmd untouched) and the string
\* left in *_str.
RECURSIVE parse_scan(_, _, _, _, _, _)
parse_scan(names, _str, str, i, matched, pm) ==
  IF i > Len(names)
  THEN IF matched # 0
       THEN [ret |-> MATCH, cmd |-> matched, str |-> SkipSpaces(SkipToken(str))]
       ELSE [ret |-> UNMATCH, cmd |-> 0, str |-> _str]
  ELSE IF strstart(names[i], str, pm) = FULLMATCH
       THEN [ret |-> MATCH, cmd |-> i, str |-> SkipSpaces(SkipToken(str))]
       ELSE IF strstart(names[i], str, pm) = PARTMATCH
            THEN IF matched # 0
                 THEN [ret |-> AMBIG, cmd |-> matched, str |-> _str]
                 ELSE parse_scan(names, _str, str, i + 1, i, pm)
            ELSE parse_scan(names, _str, str, i + 1, matched, pm)

\* int parse_command(tinysh_cmd_t **_cmd, char **_str)
parse_command(names, _str, pm) ==
  IF SkipSpaces(_str) = <<>>
  THEN [ret |-> NULLMATCH, cmd |-> 0, str |-> <<>>]
  ELSE parse_scan(names, _str, SkipSpaces(_str), 1, 0, pm)

-----------------------------------------------------------------------------
(* Command tree: the descriptors the host registers before accepting input *)
NULL    == "NULL"
_NOARG_ == "[no-arg]"

\* Admin flag packed into the argument pointer (tinysh.h). A pointer value is
\* kept as its byte 3 (bits 24..31) and its low 24 bits.
TINYSH_CMD_ADMIN == 128
Ptr(b3, low) == [b3 |-> b3, low |-> low]
NullPtr == Ptr(0, 0)

\* x & 0x80 on a byte
Bit7(n) == ((n % 256) \div 128) * 128
\* (void*)(((uintptr_t)(arg)) | (TINYSH_CMD_ADMIN << 24))
TINYSH_ADMIN_CMD(arg) ==
  IF Bit7(arg.b3) # 0 THEN arg ELSE Ptr(arg.b3 + TINYSH_CMD_ADMIN, arg.low)

\* address of tinyshell_active, as stored in quit_cmd.arg
ADDR_tinyshell_active == Ptr(0, 4210752)
\* the example's admin command argument, (void*)0x12345678
REBOOT_ARG == Ptr(18, 3430008)

help_cmd   == 1
quit_cmd   == 2
auth_cmd   == 3
reboot_cmd == 4
net_cmd    == 5
list_cmd   == 6
load_cmd   == 7
wifi_cmd   == 8
scan_cmd   == 9
menu_cmd   == 10

Cmd == <<
  [name |-> <<"h","e","l","p">>, parent |-> 0, usage |-> _NOARG_,
   function |-> "help_fnt", arg |-> NullPtr],
  [name |-> <<"q","u","i","t">>, parent |-> 0, usage |-> _NOARG_,
   function |-> "quit_fnt", arg |-> ADDR_tinyshell_active],
  [name |-> <<"a","u","t","h">>, parent |-> 0, usage |-> "password",
   function |-> "auth_cmd_handler", arg |-> NullPtr],
  [name |-> <<"r","e","b","o","o","t">>, parent |-> 0, usage |-> _NOARG_,
   function |-> "reboot_cmd_handler", arg |-> TINYSH_ADMIN_CMD(REBOOT_ARG)],
  [name |-> <<"n","e","t">>, parent |-> 0, usage |-> NULL,
   function |-> "net_cmd_handler", arg |-> NullPtr],
  [name |-> <<"l","i","s","t">>, parent |-> net_cmd, usage |-> NULL,
   function |-> "list_handler", arg |-> NullPtr],
  [name |-> <<"l","o","a","d">>, parent |-> net_cmd, usage |-> NULL,
   function |-> "load_handler", arg |-> TINYSH_ADMIN_CMD(NullPtr)],
  [name |-> <<"w","i","f","i">>, parent |-> net_cmd, usage |-> NULL,
   function |-> NULL, arg |-> NullPtr],
  [name |-> <<"s","c","a","n">>, parent |-> wifi_cmd, usage |-> NULL,
   function |-> "scan_handler", arg |-> NullPtr],
  [name |-> <<"m","e","n","u">>, parent |-> 0, usage |-> NULL,
   function |-> "menu_cmd_handler", arg |-> NullPtr] >>

CmdIds == 1..Len(Cmd)

\* The sibling chain below parent p (0: the root chain), in registration order:
\* what tinysh_add_command leaves in p->child / root_cmd and the ->next links.
RECURSIVE ChainFrom(_, _)
ChainFrom(p, i) ==
  IF i > Len(root_cmd) THEN <<>>
  ELSE IF root_cmd[i].parent = p THEN <<i>> \o ChainFrom(p, i + 1)
       ELSE ChainFrom(p, i + 1)
Chain(p) == ChainFrom(p, 1)

\* cmd->child # 0
HasChild(c) == \E i \in 1..Len(root_cmd) : root_cmd[i].parent = c

ChainNames(chain) == [i \in 1..Len(chain) |-> root_cmd[chain[i]].name]

\* static inline unsigned char tinysh_is_admin_command(tinysh_cmd_t *cmd)
tinysh_is_admin_command(c) == Bit7(root_cmd[c].arg.b3) # 0

\* static inline void* tinysh_get_real_arg(tinysh_cmd_t *cmd)
tinysh_get_real_arg(c) == Ptr(0, root_cmd[c].arg.low)

\* unsigned char tinysh_verify_password(const char *password)
tinysh_verify_password(password) == password = DEFAULT_ADMIN_PASSWORD

-----------------------------------------------------------------------------
(* Menus *)
MENU_MAX_DEPTH     == 5
MENU_MAX_ITEMS     == 10
\* items shown at once (the build's 10, scaled down so that the example menus
\* are longer than the viewport)
MENU_DISPLAY_ITEMS == 3
MAX_CMD_MENU_ITEMS == 100
\* pool of synthesized submenus (the build's 30, scaled down)
MAX_CMD_SUBMENUS   == 2

MENU_KEY_ENTER == CR
MENU_KEY_BACK  == "q"

\* An item: its type is the set of MENU_ITEM_* flags that are set.
Item(title, type, submenu, command, function, cmd) ==
  [title |-> title, type |-> type, submenu |-> submenu, command |-> command,
   function |-> function, cmd |-> cmd]

main_menu   == 1
system_menu == 2
tools_menu  == 3
cmd_menu    == 4
\* menu ids above cmd_menu are the pool slots cmd_submenus[0], [1], ...
PoolMenu(k) == cmd_menu + 1 + k

\* tinysh_menu_t* tinysh_generate_cmd_menu(void): the items for the root chain
RECURSIVE generate_cmd_items(_, _)
generate_cmd_items(chain, count) ==
  IF chain = <<>> \/ count >= MAX_CMD_MENU_ITEMS THEN <<>>
  ELSE IF root_cmd[Head(chain)].name \in {<<"m","e","n","u">>, <<"q","u","i","t">>,
                                          <<"m","e","n","u","t","e","s","t">>}
       THEN generate_cmd_items(Tail(chain), count)
       ELSE <<Item(root_cmd[Head(chain)].name,
                   {"CMD_REF"}
                     \cup (IF HasChild(Head(chain)) THEN {"SUBMENU"} ELSE {})
                     \cup (IF tinysh_is_admin_command(Head(chain)) THEN {"ADMIN"} ELSE {}),
                   0, <<>>, NULL, Head(chain))>>
            \o generate_cmd_items(Tail(chain), count + 1)

\* the "Back to Main Menu" item is added while there is room below the cap
cmd_menu_close(items) ==
  [title |-> "Shell Commands",
   items |-> IF Len(items) < MAX_CMD_MENU_ITEMS
             THEN Append(items, Item("Back to Main Menu", {"BACK"}, 0, <<>>, NULL, 0))
             ELSE items]

tinysh_generate_cmd_menu == cmd_menu_close(generate_cmd_items(Chain(0), 0))

\* tinysh_menuconf.c: main_menu, system_menu, tools_menu. The MENU_ITEM_COMMAND
\* item of the tools menu is configured with the command line "reboot" (the
\* example configuration types an echo line), so that a command typed by the
\* menu meets the privilege check of exec_command.
StaticMenus == <<
  [title |-> "TinyShell Main Menu",
   items |-> << Item("System", {"SUBMENU"}, system_menu, <<>>, NULL, 0),
                Item("Tools", {"SUBMENU"}, tools_menu, <<>>, NULL, 0),
                Item("Commands", {"SUBMENU"}, cmd_menu, <<>>, NULL, 0),
                Item("Set Parameter", {"FUNCTION_ARG"}, 0, <<>>, "set_parameter_with_args", 0),
                Item("Exit Menu Mode", {"EXIT"}, 0, <<>>, NULL, 0) >>],
  [title |-> "System Menu",
   items |-> << Item("System Information", {"FUNCTION"}, 0, <<>>, "show_system_info", 0),
                Item("Reboot System", {"FUNCTION", "ADMIN"}, 0, <<>>, "reboot_system", 0),
                Item("Back to Main Menu", {"BACK"}, 0, <<>>, NULL, 0) >>],
  [title |-> "Tools Menu",
   items |-> << Item("Run Reboot", {"COMMAND"}, 0, <<"r","e","b","o","o","t">>, NULL, 0),
                Item("Toggle LED", {"FUNCTION"}, 0, <<>>, "toggle_led", 0),
                Item("Back to Main Menu", {"BACK"}, 0, <<>>, NULL, 0) >> ] >>

\* the menu a tinysh_menu_t* points to
MenuOf(S, m) ==
  IF m <= cmd_menu THEN menus[m] ELSE S.cmd_submenus[m - cmd_menu]

item_count(S, m) == Len(MenuOf(S, m).items)

\* a scroll clamp that puts the selection on the first line of the viewport
scroll_clamp_top(S, display_count) ==
  [S EXCEPT !.menu_state.scroll_offset = S.menu_state.current_index]

\* the scroll clamp of tinysh_menu_display for a menu of n items
scroll_clamp(S, display_count) ==
  IF S.menu_state.current_index >= S.menu_state.scroll_offset + display_count
  THEN [S EXCEPT !.menu_state.scroll_offset =
                    (S.menu_state.current_index - display_count + 1) % 256]
  ELSE IF S.menu_state.current_index < S.menu_state.scroll_offset
       THEN [S EXCEPT !.menu_state.scroll_offset = S.menu_state.current_index]
       ELSE S

\* void tinysh_menu_display(void): the part that changes state
tinysh_menu_display(S) ==
  IF S.menu_state.current_menu = 0 \/ S.in_menu_mode = 0 THEN S
  ELSE IF item_count(S, S.menu_state.current_menu) > MENU_DISPLAY_ITEMS
       THEN scroll_clamp(S, MENU_DISPLAY_ITEMS)
       ELSE scroll_clamp(S, item_count(S, S.menu_state.current_menu))

\* void tinysh_menu_enter(void)
tinysh_menu_enter(S) ==
  IF S.in_menu_mode # 0 THEN S
  ELSE tinysh_menu_display(
         [S EXCEPT !.in_menu_mode = 1,
                   !.menu_state.current_menu = S.menu_state.menu_stack[1],
                   !.menu_state.current_index = S.menu_state.index_stack[1],
                   !.menu_state.scroll_offset = 0])

-----------------------------------------------------------------------------
(* Dispatch *)
ECHO_INPUT == 1

NoDispatch == [kind |-> "none", cmd |-> 0, rest |-> <<>>, line |-> <<>>, from |-> 0]

\* quit_fnt that leaves the privilege level alone
quit_fnt_keep(S) ==
  [S EXCEPT !.tinyshell_active =
              IF S.tinysh_arg = NullPtr \/ S.tinysh_arg = ADDR_tinyshell_active THEN 0 ELSE @]

\* void quit_fnt(int argc, const char **argv)
quit_fnt(S) ==
  [S EXCEPT !.tinyshell_active =
              IF S.tinysh_arg = NullPtr \/ S.tinysh_arg = ADDR_tinyshell_active THEN 0 ELSE @,
            !.tinysh_auth_level = TINYSH_AUTH_NONE]

\* void auth_cmd_handler(int argc, const char **argv)
auth_cmd_handler(S, argv) ==
  IF Len(argv) # 2 THEN S
  ELSE IF tinysh_verify_password(argv[2])
       THEN [S EXCEPT !.tinysh_auth_level = TINYSH_AUTH_ADMIN]
       ELSE S

\* the call as the observer sees it: the handler, its arguments, the argument
\* pointer and the privilege level it runs at
Called(S, fn, argv, cmd, via) ==
  [S EXCEPT !.calls = Append(@, [fn |-> fn, argv |-> argv, cmd |-> cmd,
                                 via |-> via, arg |-> S.tinysh_arg,
                                 level |-> S.tinysh_auth_level])]

\* the handlers that change the program's state; the others only print
Handler(S, fn, argv) ==
  CASE fn = "quit_fnt"         -> quit_fnt(S)
    [] fn = "auth_cmd_handler" -> auth_cmd_handler(S, argv)
    [] fn = "menu_cmd_handler" -> tinysh_menu_enter(S)
    [] OTHER                   -> S

\* cmd->function(argc, argv) / item->function()
Invoke(S, fn, argv, cmd, via) == Handler(Called(S, fn, argv, cmd, via), fn, argv)

\* exec_command's argv loop with the bound test off by one (argc <= MAX_ARGS)
RECURSIVE exec_argv_overrun(_, _)
exec_argv_overrun(str, argv) ==
  IF str = <<>> \/ Len(argv) > MAX_ARGS THEN argv
  ELSE IF SkipSpaces(str) = <<>> THEN argv
  ELSE IF SkipToken(SkipSpaces(str)) = <<>>
       THEN Append(argv, SkipSpaces(str))
       ELSE exec_argv_overrun(
              Tail(SkipToken(SkipSpaces(str))),
              Append(argv, Take(SkipSpaces(str),
                                Len(SkipSpaces(str)) - Len(SkipToken(SkipSpaces(str))))))

\* exec_command: while(*str && argc<MAX_ARGS) { skip blanks; argv[argc++]=str;
\* skip the token; if(*str==0) break; *str++=0; }
RECURSIVE exec_argv(_, _)
exec_argv(str, argv) ==
  IF str = <<>> \/ Len(argv) >= MAX_ARGS THEN argv
  ELSE IF SkipSpaces(str) = <<>> THEN argv
  ELSE IF SkipToken(SkipSpaces(str)) = <<>>
       THEN Append(argv, SkipSpaces(str))
       ELSE exec_argv(
              Tail(SkipToken(SkipSpaces(str))),
              Append(argv, Take(SkipSpaces(str),
                                Len(SkipSpaces(str)) - Len(SkipToken(SkipSpaces(str))))))

\* the part of exec_command after the admin check: trash copy, argv, the call
exec_call(S, cmd, str, real_arg) ==
  IF root_cmd[cmd].function # NULL
  THEN Invoke([S EXCEPT !.dispatch.kind = "exec", !.dispatch.cmd = cmd,
                        !.dispatch.rest = str, !.tinysh_arg = real_arg],
              root_cmd[cmd].function,
              exec_argv(Take(str, BUFFER_SIZE - 1), <<root_cmd[cmd].name>>),
              cmd, "shell")
  ELSE [S EXCEPT !.dispatch.kind = "exec", !.dispatch.cmd = cmd,
                 !.dispatch.rest = str]

\* exec_command without the admin check
exec_command_nogate(S, cmd, str) == exec_call(S, cmd, str, root_cmd[cmd].arg)

\* void exec_command(tinysh_cmd_t *cmd, char *str)
exec_command(S, cmd, str) ==
  IF tinysh_is_admin_command(cmd) /\ S.tinysh_auth_level < TINYSH_AUTH_ADMIN
  THEN [S EXCEPT !.dispatch.kind = "refused", !.dispatch.cmd = cmd,
                 !.dispatch.rest = str]
  ELSE exec_call(S, cmd, str,
                 IF tinysh_is_admin_command(cmd)
                 THEN tinysh_get_real_arg(cmd) ELSE root_cmd[cmd].arg)

\* void do_context(tinysh_cmd_t *cmd, char *str)
do_context(S, cmd, str) ==
  [S EXCEPT !.context_buffer = IF S.cur_context > Len(@) THEN @
                               ELSE Take(@, S.cur_context) \o str,
            !.cur_context = @ + Len(str),
            !.cur_cmd_ctx = cmd,
            !.dispatch.kind = "context", !.dispatch.cmd = cmd]

\* exec_command_line that keeps descending when no input remains
RECURSIVE exec_loop_nocontext(_, _, _, _)
exec_loop_nocontext(S, chain, str, _str) ==
  LET level(r) ==
        IF r.ret = MATCH
        THEN IF ~HasChild(chain[r.cmd]) THEN exec_command(S, chain[r.cmd], r.str)
             ELSE exec_loop_nocontext(S, Chain(chain[r.cmd]), r.str, _str)
        ELSE [S EXCEPT !.dispatch.kind = r.ret, !.dispatch.rest = r.str]
  IN level(parse_command(ChainNames(chain), str, PARTIAL_MATCH))

\* exec_command_line that sets the context before reporting a failed level
RECURSIVE exec_loop_dirty(_, _, _, _)
exec_loop_dirty(S, chain, str, _str) ==
  LET level(r) ==
        IF r.ret = MATCH
        THEN IF ~HasChild(chain[r.cmd]) THEN exec_command(S, chain[r.cmd], r.str)
             ELSE IF r.str = <<>> THEN do_context(S, chain[r.cmd], _str)
                  ELSE exec_loop_dirty([S EXCEPT !.cur_cmd_ctx = chain[r.cmd]],
                                       Chain(chain[r.cmd]), r.str, _str)
        ELSE [S EXCEPT !.dispatch.kind = r.ret, !.dispatch.rest = r.str]
  IN level(parse_command(ChainNames(chain), str, PARTIAL_MATCH))

\* the while(1) loop of exec_command_line: cmd is the head of `chain`, str the
\* input left, _str the whole line
RECURSIVE exec_loop(_, _, _, _)
exec_loop(S, chain, str, _str) ==
  LET level(r) ==
        IF r.ret = MATCH
        THEN IF ~HasChild(chain[r.cmd]) THEN exec_command(S, chain[r.cmd], r.str)
             ELSE IF r.str = <<>> THEN do_context(S, chain[r.cmd], _str)
                  ELSE exec_loop(S, Chain(chain[r.cmd]), r.str, _str)
        ELSE [S EXCEPT !.dispatch.kind = r.ret, !.dispatch.rest = r.str]
  IN level(parse_command(ChainNames(chain), str, PARTIAL_MATCH))

\* int exec_command_line(tinysh_cmd_t *cmd, char *_str), called with
\* cmd = cur_cmd_ctx ? cur_cmd_ctx->child : root_cmd
exec_command_line(S, _str) ==
  exec_loop([S EXCEPT !.dispatch = [NoDispatch EXCEPT !.line = _str,
                                                      !.from = S.cur_cmd_ctx]],
            Chain(S.cur_cmd_ctx), _str, _str)

-----------------------------------------------------------------------------
(* Line editor and history ring *)

\* int tinysh_strlen(const char *s)
tinysh_strlen(s) == IF Len(s) > BUFFER_SIZE THEN BUFFER_SIZE ELSE Len(s)

\* void start_of_line()
start_of_line(S) == [S EXCEPT !.cur_index = 0]

\* the end of the submit branch with the ring cursor left where it is
next_line_noadvance(S) ==
  start_of_line([S EXCEPT !.input_buffers[S.cur_buf_index] = <<>>,
                          !.cur_index = 0])

\* the end of the submit branch with the new slot left as it is
next_line_keep(S) ==
  start_of_line([S EXCEPT !.cur_buf_index = (S.cur_buf_index + 1) % HISTORY_DEPTH,
                          !.cur_index = 0])

\* the end of the submit branch: cur_buf_index=(cur_buf_index+1)%HISTORY_DEPTH;
\* input_buffers[cur_buf_index][0]=0; cur_index=0; start_of_line()
next_line(S) ==
  start_of_line([S EXCEPT !.cur_buf_index = (S.cur_buf_index + 1) % HISTORY_DEPTH,
                          !.input_buffers[(S.cur_buf_index + 1) % HISTORY_DEPTH] = <<>>,
                          !.cur_index = 0])

\* tinysh_char_in, c=='\n' || c=='\r': validate command
char_in_submit(S) ==
  IF SkipSpaces(S.input_buffers[S.cur_buf_index]) # <<>>
  THEN next_line(exec_command_line(S, SkipSpaces(S.input_buffers[S.cur_buf_index])))
  ELSE IF ECHO_INPUT # 0 THEN start_of_line(S) ELSE S

\* a return to top level that forgets the breadcrumb
char_in_top_crumb(S) ==
  [S EXCEPT !.cur_cmd_ctx = 0]

\* tinysh_char_in, c==TOPCHAR: return to top level
char_in_top(S) ==
  [S EXCEPT !.cur_context = 0, !.cur_cmd_ctx = 0, !.context_buffer = <<>>]

\* tinysh_char_in, c==8 || c==127: backspace
char_in_backspace(S) ==
  IF S.cur_index > 0
  THEN [S EXCEPT !.cur_index = @ - 1,
                 !.input_buffers[S.cur_buf_index] = StrCut(@, S.cur_index - 1)]
  ELSE S

\* tinysh_char_in, c==16 (CTRL-P, step = HISTORY_DEPTH-1) and c==14 (CTRL-N,
\* step = 1): the two branches differ in the slot they look at only
char_in_history(S, step) ==
  LET other == (S.cur_buf_index + step) % HISTORY_DEPTH IN
  IF HISTORY_DEPTH > 1 /\ S.input_buffers[other] # <<>>
  THEN [S EXCEPT !.cur_index = tinysh_strlen(S.input_buffers[other]),
                 !.cur_buf_index = other]
  ELSE S

\* tinysh_char_in, any input character
char_in_plain(S, c) ==
  IF S.cur_index < BUFFER_SIZE
  THEN [S EXCEPT !.input_buffers[S.cur_buf_index] = StrPut(@, S.cur_index, c),
                 !.cur_index = @ + 1]
  ELSE S

\* char *line=input_buffers[cur_buf_index]
LiveOf(S) == S.input_buffers[S.cur_buf_index]

\* tinysh_char_in, c=='?': help_command_line only prints; then start_of_line,
\* the line again, cur_index=tinysh_strlen(line)
char_in_help(S) ==
  [start_of_line(S) EXCEPT !.cur_index = tinysh_strlen(LiveOf(S))]

RECURSIVE tinysh_char_in(_, _)

\* for(i=from; i<to && name[i]; i++) tinysh_char_in(name[i])
RECURSIVE type_name(_, _, _, _)
type_name(S, name, i, to) ==
  IF i < to /\ i < Len(name)
  THEN type_name(tinysh_char_in(S, name[i + 1]), name, i + 1, to)
  ELSE S

\* *(str-1) for str = line + pos. With pos = 0 the byte read lies before the
\* line: S.before_line is what the read yields. The read happens only when an
\* ambiguous first token is followed in the chain by a command of that very
\* name, which no command table registered here contains; a table that does
\* has to draw before_line from {NUL, SP}
CharBefore(S, pos) ==
  IF pos = 0 THEN S.before_line
  ELSE IF pos <= Len(LiveOf(S)) THEN LiveOf(S)[pos] ELSE NUL

\* for(i=_str_len; cm->name[i] && i<common_len &&
\*     cm->name[i]==matched_cmd->name[i]; i++);
RECURSIVE common_from(_, _, _, _)
common_from(name, matched_name, i, common_len) ==
  IF i < Len(name) /\ i < common_len /\ name[i + 1] = matched_name[i + 1]
  THEN common_from(name, matched_name, i + 1, common_len)
  ELSE i

\* the for loop of complete_command_line over the siblings chain[k..]: the
\* position of the sibling that matched in full (0: none), nb_match,
\* matched_cmd and common_len
RECURSIVE complete_for(_, _, _, _, _, _, _)
complete_for(chain, k, __str, _str_len, nb_match, matched_cmd, common_len) ==
  IF k > Len(chain)
  THEN [full |-> 0, nb_match |-> nb_match, matched_cmd |-> matched_cmd,
        common_len |-> common_len]
  ELSE LET name == root_cmd[chain[k]].name
           r == strstart(name, __str, PARTIAL_MATCH)
       IN IF r = FULLMATCH
          THEN [full |-> k, nb_match |-> nb_match, matched_cmd |-> matched_cmd,
                common_len |-> common_len]
          ELSE IF r = PARTMATCH
               THEN IF matched_cmd = 0
                    THEN complete_for(chain, k + 1, __str, _str_len, nb_match + 1,
                                      chain[k], tinysh_strlen(name))
                    ELSE LET i == common_from(name, root_cmd[matched_cmd].name,
                                              _str_len, common_len)
                         IN complete_for(chain, k + 1, __str, _str_len, nb_match + 1,
                                         matched_cmd,
                                         IF i < common_len THEN i ELSE common_len)
               ELSE complete_for(chain, k + 1, __str, _str_len, nb_match,
                                 matched_cmd, common_len)

\* int complete_command_line(tinysh_cmd_t *cmd, char *_str): the state it
\* leaves (the value returned decides what is printed only). chain is the
\* sibling chain cmd heads, pos the offset of str in the live line, which the
\* characters typed by the function extend
RECURSIVE complete_command_line(_, _, _)
complete_command_line(S, chain, pos) ==
  LET __str == Drop(LiveOf(S), pos)
      r == parse_command(ChainNames(chain), __str, PARTIAL_MATCH)
      str == Len(LiveOf(S)) - Len(r.str)
      _str_len == Len(__str) - Len(SkipToken(__str))
      k == IF r.cmd # 0 THEN r.cmd ELSE 1
      cmd == IF chain = <<>> THEN 0 ELSE chain[k]
      f == complete_for(chain, k, __str, _str_len, 0, 0, BUFFER_SIZE)
      full == LET S1 == type_name(S, root_cmd[cmd].name, _str_len,
                                  Len(root_cmd[cmd].name))
                  S2 == IF CharBefore(S1, str) # SP THEN tinysh_char_in(S1, SP)
                        ELSE S1
              IN IF ~HasChild(cmd) THEN S2
                 ELSE complete_command_line(S2, Chain(cmd), str)
      partial == IF _str_len = f.common_len THEN S
                 ELSE LET S1 == type_name(S, root_cmd[f.matched_cmd].name,
                                          _str_len, f.common_len)
                      IN IF f.nb_match = 1 THEN tinysh_char_in(S1, SP) ELSE S1
  IN IF r.ret = MATCH /\ r.str # <<>>
     THEN complete_command_line(S, Chain(chain[r.cmd]), str)
     ELSE IF r.ret \in {AMBIG, MATCH, NULLMATCH}
          THEN IF f.full # 0 THEN full
               ELSE IF f.matched_cmd # 0 THEN partial ELSE S
          ELSE S

\* tinysh_char_in, c==9 || c=='!': autocompletion
char_in_complete(S) ==
  LET R == complete_command_line(
             S, IF S.cur_cmd_ctx # 0 THEN Chain(S.cur_cmd_ctx) ELSE Chain(0), 0)
  IN [R EXCEPT !.cur_index = tinysh_strlen(LiveOf(R))]

\* void tinysh_char_in(char c)
tinysh_char_in(S, c) ==
  CASE c = CR      -> char_in_submit(S)
    [] c = TOPCHAR -> char_in_top(S)
    [] c = BS      -> char_in_backspace(S)
    [] c = CTRLP /\ HISTORY_DEPTH > 1 -> char_in_history(S, HISTORY_DEPTH - 1)
    [] c = CTRLN /\ HISTORY_DEPTH > 1 -> char_in_history(S, 1)
    [] c = "?"     -> char_in_help(S)
    [] c \in {TAB, "!"} /\ AUTOCOMPLATION > 0 -> char_in_complete(S)
    [] c = CTRLD   -> [S EXCEPT !.tinyshell_active = 0]
    [] OTHER       -> char_in_plain(S, c)

\* void tinysh_reset_context(void)
tinysh_reset_context(S) ==
  [S EXCEPT !.cur_context = 0, !.cur_cmd_ctx = 0, !.context_buffer = <<>>]

-----------------------------------------------------------------------------
(* Menu navigator *)

\* the loop of tinysh_tokenize without the skip over leading delimiters
RECURSIVE tokenize_loop_noskip(_, _, _, _)
tokenize_loop_noskip(str, token, vector, max_arg) ==
  IF str = <<>> \/ Len(vector) >= max_arg THEN vector
  ELSE LET RECURSIVE scan(_)
           scan(t) == IF t # <<>> /\ Head(t) # token THEN scan(Tail(t)) ELSE t
           tok(rest) == Take(str, Len(str) - Len(rest))
           go(rest) == IF rest = <<>> THEN Append(vector, tok(rest))
                       ELSE tokenize_loop_noskip(Tail(rest), token,
                                                 Append(vector, tok(rest)), max_arg) IN
       go(scan(str))

\* int tinysh_tokenize(char *str, char token, char **vector, int max_arg)
RECURSIVE tokenize_loop(_, _, _, _)
tokenize_loop(str, token, vector, max_arg) ==
  IF str = <<>> \/ Len(vector) >= max_arg THEN vector
  ELSE LET RECURSIVE skip(_)
           skip(t) == IF t # <<>> /\ Head(t) = token THEN skip(Tail(t)) ELSE t
           RECURSIVE scan(_)
           scan(t) == IF t # <<>> /\ Head(t) # token THEN scan(Tail(t)) ELSE t
           s1 == skip(str) IN
       IF s1 = <<>> THEN vector
       ELSE LET rest == scan(s1)
                tok  == Take(s1, Len(s1) - Len(rest)) IN
            IF rest = <<>> THEN Append(vector, tok)
            ELSE tokenize_loop(Tail(rest), token, Append(vector, tok), max_arg)

tinysh_tokenize(str, token, max_arg) == tokenize_loop(str, token, <<>>, max_arg)

\* tinysh_tokenize as the host calls it: str and vector may be null pointers
\* (if (!vector || !str) return 0); the result is argc and vector[0..argc-1]
tinysh_tokenize_entry(str_null, str, token, vector_null, max_arg) ==
  LET result(v) == [argc |-> Len(v), vector |-> v] IN
  IF vector_null \/ str_null THEN result(<<>>)
  ELSE result(tinysh_tokenize(str, token, max_arg))

\* a store into menu_stack[] / index_stack[] (slots 0..MENU_MAX_DEPTH-1)
StackPut(stack, i, v) == IF i + 1 \in DOMAIN stack THEN [stack EXCEPT ![i + 1] = v] ELSE stack
StackGet(stack, i) == IF i + 1 \in DOMAIN stack THEN stack[i + 1] ELSE 0

\* tinysh_menu_go_back that pops without restoring the selection
tinysh_menu_go_back_top(S) ==
  IF S.menu_state.menu_stack_idx = 0 THEN S
  ELSE LET idx == S.menu_state.menu_stack_idx - 1 IN
       tinysh_menu_display(
         [S EXCEPT !.menu_state.menu_stack_idx = idx,
                   !.menu_state.current_menu = StackGet(S.menu_state.menu_stack, idx),
                   !.menu_state.current_index = 0,
                   !.menu_state.scroll_offset = 0])

\* the value tinysh_menu_go_back returns: 0 at the root, 1 after a pop
tinysh_menu_go_back_ret(S) == IF S.menu_state.menu_stack_idx = 0 THEN 0 ELSE 1

\* int tinysh_menu_go_back(void): the state it leaves; it returns
\* menu_stack_idx != 0 of the state it was called in
tinysh_menu_go_back(S) ==
  IF S.menu_state.menu_stack_idx = 0 THEN S
  ELSE LET idx == S.menu_state.menu_stack_idx - 1 IN
       tinysh_menu_display(
         [S EXCEPT !.menu_state.menu_stack_idx = idx,
                   !.menu_state.current_menu = StackGet(S.menu_state.menu_stack, idx),
                   !.menu_state.current_index = StackGet(S.menu_state.index_stack, idx),
                   !.menu_state.scroll_offset = 0])

\* void tinysh_menu_exit(void)
tinysh_menu_exit(S) ==
  IF S.in_menu_mode = 0 THEN S
  ELSE tinysh_char_in(tinysh_reset_context([S EXCEPT !.in_menu_mode = 0]), CR)

\* static void start_argument_collection(title, param_desc, function_arg)
start_argument_collection(S, title, function_arg) ==
  [S EXCEPT !.collecting_arguments = 1,
            !.pending_function_arg = function_arg,
            !.arg_buffer_index = 0,
            !.arg_buffer = <<>>,
            !.arg_title = title]

\* static void prompt_for_arguments(title, param_desc, function_arg)
prompt_for_arguments(S, title, function_arg) ==
  start_argument_collection(S, title, function_arg)

\* the push shared by the two submenu branches of execute_menu_item
PushMenu(S, submenu) ==
  LET ms == S.menu_state IN
  [S EXCEPT !.menu_state.index_stack = StackPut(ms.index_stack, ms.menu_stack_idx, ms.current_index),
            !.menu_state.menu_stack_idx = ms.menu_stack_idx + 1,
            !.menu_state.menu_stack = StackPut(ms.menu_stack, ms.menu_stack_idx + 1, submenu),
            !.menu_state.current_menu = submenu,
            !.menu_state.current_index = 0,
            !.menu_state.scroll_offset = 0]

\* execute_menu_item, MENU_ITEM_CMD_REF with MENU_ITEM_SUBMENU: the items
\* synthesized for the children of cmd
RECURSIVE synth_items(_, _)
synth_items(chain, child_count) ==
  IF chain = <<>> \/ child_count >= MENU_MAX_ITEMS - 1 THEN <<>>
  ELSE LET child == Head(chain) IN
       <<Item(root_cmd[child].name,
              {"CMD_REF"} \cup (IF tinysh_is_admin_command(child) THEN {"ADMIN"} ELSE {}),
              0, <<>>, NULL, child)>>
       \o synth_items(Tail(chain), child_count + 1)

\* while (*cmd) tinysh_char_in(*cmd++);
RECURSIVE type_command(_, _)
type_command(S, cmd) ==
  IF cmd = <<>> THEN S ELSE type_command(tinysh_char_in(S, Head(cmd)), Tail(cmd))

\* execute_menu_item, MENU_ITEM_CMD_REF with MENU_ITEM_SUBMENU: the submenu is
\* built in the next pool slot and entered
synth_submenu(S, cmd) ==
  IF S.submenu_count < MAX_CMD_SUBMENUS
  THEN tinysh_menu_display(
         [PushMenu([S EXCEPT !.cmd_submenus[S.submenu_count + 1] =
                      [title |-> root_cmd[cmd].name \o <<" ","C","o","m","m","a","n","d","s">>,
                       items |-> Append(synth_items(Chain(cmd), 0),
                                        Item("Back", {"BACK"}, 0, <<>>, NULL, 0))]],
                   PoolMenu(S.submenu_count))
            EXCEPT !.submenu_count = @ + 1])
  ELSE S

\* execute_menu_item, MENU_ITEM_CMD_REF without MENU_ITEM_SUBMENU
cmd_ref_leaf(S, cmd) ==
  IF root_cmd[cmd].function = NULL THEN S
  ELSE IF root_cmd[cmd].usage # NULL /\ root_cmd[cmd].usage # _NOARG_
       THEN prompt_for_arguments(S, root_cmd[cmd].name, root_cmd[cmd].function)
       ELSE [Invoke([S EXCEPT !.in_menu_mode = 0], root_cmd[cmd].function,
                    <<root_cmd[cmd].name>>, cmd, "menu")
               EXCEPT !.in_menu_mode = S.in_menu_mode, !.waiting_for_keypress = 1]

\* execute_menu_item, MENU_ITEM_COMMAND: menu mode off, '\r', the characters
\* of the command, '\r', menu mode on
run_command_item(S, command) ==
  [type_command([S EXCEPT !.in_menu_mode = 0], <<CR>> \o command \o <<CR>>)
     EXCEPT !.in_menu_mode = 1, !.waiting_for_keypress = 1]

\* static void execute_menu_item(tinysh_menu_item_t *item)
execute_menu_item(S, item) ==
  IF "BACK" \in item.type THEN tinysh_menu_go_back(S)
  ELSE IF "EXIT" \in item.type THEN tinysh_menu_exit(S)
  ELSE IF "CMD_REF" \in item.type THEN
    IF item.cmd = 0 THEN S
    ELSE IF "SUBMENU" \in item.type THEN synth_submenu(S, item.cmd)
    ELSE cmd_ref_leaf(S, item.cmd)
  ELSE IF "SUBMENU" \in item.type THEN
    IF item.submenu # 0 /\ S.menu_state.menu_stack_idx < MENU_MAX_DEPTH - 1
    THEN tinysh_menu_display(PushMenu(S, item.submenu))
    ELSE S
  ELSE IF "FUNCTION" \in item.type THEN
    IF item.function # NULL
    THEN [Invoke(S, item.function, <<>>, 0, "menu") EXCEPT !.waiting_for_keypress = 1]
    ELSE S
  ELSE IF "FUNCTION_ARG" \in item.type THEN
    IF item.function # NULL
    THEN prompt_for_arguments(S, item.title, item.function)
    ELSE S
  ELSE IF "COMMAND" \in item.type THEN
    IF item.command # <<>> THEN run_command_item(S, item.command) ELSE S
  ELSE S

\* the item under the cursor
current_item(S) ==
  MenuOf(S, S.menu_state.current_menu).items[S.menu_state.current_index + 1]

\* void tinysh_menu_execute_selection(void)
tinysh_menu_execute_selection(S) ==
  IF S.menu_state.current_menu = 0
       \/ S.menu_state.current_index >= item_count(S, S.menu_state.current_menu)
  THEN S
  ELSE IF "ADMIN" \in current_item(S).type /\ S.tinysh_auth_level < TINYSH_AUTH_ADMIN
       THEN [S EXCEPT !.waiting_for_keypress = 1]
       ELSE execute_menu_item(S, current_item(S))

\* navigate_menu that stops at the first and at the last item
wrap_index_stop(new_index, n) ==
  IF new_index < 0 THEN 0 ELSE IF new_index >= n THEN n - 1 ELSE new_index

\* the wrap-around of navigate_menu in a menu of n items
wrap_index(new_index, n) ==
  IF new_index < 0 THEN n - 1 ELSE IF new_index >= n THEN 0 ELSE new_index

\* static void navigate_menu(int direction)
navigate_menu(S, direction) ==
  IF S.menu_state.current_menu = 0 \/ item_count(S, S.menu_state.current_menu) = 0
  THEN S
  ELSE tinysh_menu_display(
         [S EXCEPT !.menu_state.current_index =
                     wrap_index(@ + direction, item_count(S, S.menu_state.current_menu))])

\* static void menu_select_item(unsigned char index)
menu_select_item(S, index) ==
  IF S.menu_state.current_menu = 0 \/ index >= item_count(S, S.menu_state.current_menu)
  THEN S
  ELSE [S EXCEPT !.menu_state.current_index = index]

Printable(c) == c \notin {CR, BS, ESC, TAB, CTRLP, CTRLN, CTRLD}
Digits == <<"0", "1", "2", "3", "4", "5", "6", "7", "8", "9">>
IsDigit(c) == \E i \in 1..10 : Digits[i] = c
DigitValue(c) == (CHOOSE i \in 1..10 : Digits[i] = c) - 1

\* handle_argument_input that hands the untokenized buffer to the function
handle_argument_input_raw(S, c) ==
  IF c = CR
  THEN [IF S.pending_function_arg # NULL
        THEN Invoke(S, S.pending_function_arg, <<S.arg_title, S.arg_buffer>>, 0, "menu")
        ELSE S
          EXCEPT !.collecting_arguments = 0,
                 !.pending_function_arg = NULL,
                 !.waiting_for_keypress = 1]
  ELSE IF c = BS
  THEN IF S.arg_buffer_index > 0
       THEN [S EXCEPT !.arg_buffer_index = @ - 1,
                      !.arg_buffer = StrCut(@, S.arg_buffer_index - 1)]
       ELSE S
  ELSE IF S.arg_buffer_index < BUFFER_SIZE - 1 /\ Printable(c)
  THEN [S EXCEPT !.arg_buffer = StrPut(@, S.arg_buffer_index, c),
                 !.arg_buffer_index = @ + 1]
  ELSE S

\* static int handle_argument_input(char c): every path returns 1
handle_argument_input(S, c) ==
  IF c = CR
  THEN [IF S.pending_function_arg # NULL
        THEN Invoke(S, S.pending_function_arg,
                    <<S.arg_title>> \o tinysh_tokenize(S.arg_buffer, SP, MAX_ARGS - 1),
                    0, "menu")
        ELSE S
          EXCEPT !.collecting_arguments = 0,
                 !.pending_function_arg = NULL,
                 !.waiting_for_keypress = 1]
  ELSE IF c = BS
  THEN IF S.arg_buffer_index > 0
       THEN [S EXCEPT !.arg_buffer_index = @ - 1,
                      !.arg_buffer = StrCut(@, S.arg_buffer_index - 1)]
       ELSE S
  ELSE IF S.arg_buffer_index < BUFFER_SIZE - 1 /\ Printable(c)
  THEN [S EXCEPT !.arg_buffer = StrPut(@, S.arg_buffer_index, c),
                 !.arg_buffer_index = @ + 1]
  ELSE S

\* a state and the value the function returns with it
Ret(S, r) == [S |-> S, ret |-> r]

\* if (!tinysh_menu_go_back()) tinysh_menu_exit();
back_or_exit(S) ==
  IF tinysh_menu_go_back_ret(S) # 0
  THEN tinysh_menu_go_back(S)
  ELSE tinysh_menu_exit(tinysh_menu_go_back(S))

\* the regular keys with a digit that executes the item it selects
process_regular_key_run(S, c) ==
  IF c = ESC
  THEN Ret([S EXCEPT !.in_escape_seq = 1, !.escape_char_count = 0], 1)
  ELSE IF c = MENU_KEY_ENTER
  THEN Ret(tinysh_menu_execute_selection(S), 1)
  ELSE IF c = MENU_KEY_BACK
  THEN Ret(back_or_exit(S), 1)
  ELSE IF IsDigit(c)
  THEN Ret(IF DigitValue(c) < item_count(S, S.menu_state.current_menu)
           THEN tinysh_menu_execute_selection(menu_select_item(S, DigitValue(c)))
           ELSE S, 1)
  ELSE Ret(S, 0)

\* tinysh_menu_process_char, "Process regular navigation keys"
process_regular_key(S, c) ==
  IF c = ESC
  THEN Ret([S EXCEPT !.in_escape_seq = 1, !.escape_char_count = 0], 1)
  ELSE IF c = MENU_KEY_ENTER
  THEN Ret(tinysh_menu_execute_selection(S), 1)
  ELSE IF c = MENU_KEY_BACK
  THEN Ret(back_or_exit(S), 1)
  ELSE IF IsDigit(c)
  THEN Ret(IF DigitValue(c) < item_count(S, S.menu_state.current_menu)
           THEN tinysh_menu_display(menu_select_item(S, DigitValue(c)))
           ELSE S, 1)
  ELSE Ret(S, 0)

RECURSIVE tinysh_menu_process_char(_, _)

\* tinysh_menu_process_char, "Handle escape sequences for arrow keys", entered
\* with escape_char_count already incremented; ret = 1: the function returned
\* 1 here, ret = 0: control reaches the regular keys, ret = 2: the result of
\* the nested call is in `nested`
escape_seq(S, c) ==
  IF S.escape_char_count = 1 /\ c = "[" THEN Ret(S, 1)
  ELSE IF S.escape_char_count = 2
  THEN IF c \in {"A", "B"}
       THEN Ret(navigate_menu([S EXCEPT !.in_escape_seq = 0, !.escape_char_count = 0],
                              IF c = "A" THEN -1 ELSE 1), 1)
       ELSE IF c = "C"
       THEN Ret(tinysh_menu_execute_selection(
                  [S EXCEPT !.in_escape_seq = 0, !.escape_char_count = 0]), 1)
       ELSE IF c = "D"
       THEN Ret(tinysh_menu_go_back(
                  [S EXCEPT !.in_escape_seq = 0, !.escape_char_count = 0]), 1)
       ELSE Ret([S EXCEPT !.in_escape_seq = 0, !.escape_char_count = 0], 0)
  ELSE IF S.escape_char_count > 2
  THEN [S |-> S, ret |-> 2,
        nested |-> tinysh_menu_process_char(
                     back_or_exit([S EXCEPT !.in_escape_seq = 0,
                                            !.escape_char_count = 0]), c)]
  ELSE Ret(S, 0)

\* an acknowledgement that handles the key it was given as a regular key
acknowledge_key(S, c) == process_regular_key([S EXCEPT !.waiting_for_keypress = 0], c)

\* tinysh_menu_process_char, "Check if we're waiting for a keypress to
\* continue": the key c is not looked at
acknowledge(S, c) == Ret(tinysh_menu_display([S EXCEPT !.waiting_for_keypress = 0]), 1)

\* the regular keys, reached unless the escape block returned
after_escape(r, c) ==
  IF r.ret = 1 THEN r
  ELSE IF r.ret = 2 THEN r.nested
  ELSE process_regular_key(r.S, c)

\* int tinysh_menu_process_char(char c)
tinysh_menu_process_char(S, c) ==
  IF S.in_menu_mode = 0 THEN Ret(S, 0)
  ELSE IF S.collecting_arguments # 0 THEN Ret(handle_argument_input(S, c), 1)
  ELSE IF S.waiting_for_keypress # 0 THEN acknowledge(S, c)
  ELSE after_escape(
         IF S.in_escape_seq # 0
         THEN escape_seq([S EXCEPT !.escape_char_count = @ + 1], c)
         ELSE Ret(S, 0), c)

\* int tinysh_menu_hook(char c)
tinysh_menu_hook(S, c) ==
  IF S.in_menu_mode # 0 THEN tinysh_menu_process_char(S, c) ELSE Ret(S, 0)

\* the pass of a character through the line editor when the hook returned 0
pass_char(r, c) == IF r.ret = 0 THEN Ret(tinysh_char_in(r.S, c), 0) ELSE r

\* the host loop body: if (!tinysh_menu_hook(c)) tinysh_char_in(c); the result
\* keeps what the hook returned. The two entry points do not read
\* tinyshell_active: a host that keeps calling them after quit (the example
\* main loop stops on is_tinyshell_active()) is served as before.
host_char(S, c) == pass_char(tinysh_menu_hook(S, c), c)

-----------------------------------------------------------------------------
(* The program state as one record, and the state after construction *)
St ==
  [input_buffers |-> input_buffers, cur_buf_index |-> cur_buf_index,
   cur_index |-> cur_index, cur_cmd_ctx |-> cur_cmd_ctx,
   context_buffer |-> context_buffer, cur_context |-> cur_context,
   tinysh_auth_level |-> tinysh_auth_level, tinyshell_active |-> tinyshell_active,
   tinysh_arg |-> tinysh_arg, in_menu_mode |-> in_menu_mode,
   waiting_for_keypress |-> waiting_for_keypress,
   collecting_arguments |-> collecting_arguments,
   pending_function_arg |-> pending_function_arg, arg_buffer |-> arg_buffer,
   arg_buffer_index |-> arg_buffer_index, arg_title |-> arg_title,
   in_escape_seq |-> in_escape_seq, escape_char_count |-> escape_char_count,
   menu_state |-> menu_state, submenu_count |-> submenu_count,
   cmd_submenus |-> cmd_submenus, calls |-> calls, dispatch |-> dispatch,
   before_line |-> NUL]

Becomes(S) ==
  /\ input_buffers' = S.input_buffers
  /\ cur_buf_index' = S.cur_buf_index
  /\ cur_index' = S.cur_index
  /\ cur_cmd_ctx' = S.cur_cmd_ctx
  /\ context_buffer' = S.context_buffer
  /\ cur_context' = S.cur_context
  /\ tinysh_auth_level' = S.tinysh_auth_level
  /\ tinyshell_active' = S.tinyshell_active
  /\ tinysh_arg' = S.tinysh_arg
  /\ in_menu_mode' = S.in_menu_mode
  /\ waiting_for_keypress' = S.waiting_for_keypress
  /\ collecting_arguments' = S.collecting_arguments
  /\ pending_function_arg' = S.pending_function_arg
  /\ arg_buffer' = S.arg_buffer
  /\ arg_buffer_index' = S.arg_buffer_index
  /\ arg_title' = S.arg_title
  /\ in_escape_seq' = S.in_escape_seq
  /\ escape_char_count' = S.escape_char_count
  /\ menu_state' = S.menu_state
  /\ submenu_count' = S.submenu_count
  /\ cmd_submenus' = S.cmd_submenus
  /\ calls' = S.calls
  /\ dispatch' = S.dispatch

EmptyMenu == [title |-> "", items |-> <<>>]

\* static storage as the loader leaves it, then tinysh_auth_init and
\* tinysh_menu_init(root_menu)
InitProgramMenus(pm, depth, root_menu, cmds, static_menus) ==
  /\ PARTIAL_MATCH = pm
  /\ HISTORY_DEPTH = depth
  /\ root_cmd = cmds
  /\ menus = Append(static_menus, tinysh_generate_cmd_menu)
  /\ input_buffers = [i \in 0..(depth - 1) |-> <<>>]
  /\ cur_buf_index = 0
  /\ cur_index = 0
  /\ cur_cmd_ctx = 0
  /\ context_buffer = <<>>
  /\ cur_context = 0
  /\ tinysh_auth_level = TINYSH_AUTH_NONE
  /\ tinyshell_active = 1
  /\ tinysh_arg = NullPtr
  /\ in_menu_mode = 0
  /\ waiting_for_keypress = 0
  /\ collecting_arguments = 0
  /\ pending_function_arg = NULL
  /\ arg_buffer = <<>>
  /\ arg_buffer_index = 0
  /\ arg_title = NULL
  /\ in_escape_seq = 0
  /\ escape_char_count = 0
  /\ menu_state = [current_menu |-> root_menu, current_index |-> 0,
                   scroll_offset |-> 0, menu_stack_idx |-> 0,
                   menu_stack |-> [i \in 1..MENU_MAX_DEPTH |->
                                     IF i = 1 THEN root_menu ELSE 0],
                   index_stack |-> [i \in 1..MENU_MAX_DEPTH |-> 0]]
  /\ submenu_count = 0
  /\ cmd_submenus = [i \in 1..MAX_CMD_SUBMENUS |-> EmptyMenu]
  /\ calls = <<>>
  /\ dispatch = NoDispatch
  /\ fed = <<>>

\* the menus of tinysh_menuconf.c
InitProgramCmds(pm, depth, root_menu, cmds) ==
  InitProgramMenus(pm, depth, root_menu, cmds, StaticMenus)

\* the example program: the commands of Cmd are registered
InitProgramRoot(pm, depth, root_menu) == InitProgramCmds(pm, depth, root_menu, Cmd)

\* the example configuration: tinysh_menuconf_init makes main_menu the root
InitProgram(pm, depth) == InitProgramRoot(pm, depth, main_menu)

\* what a call of a matching function left: the function, the sibling it was
\* applied to (strstart), the value returned, *_cmd and *_str (parse_command)
NoMatchCall == [op |-> "none", k |-> 0, ret |-> "none", cmd |-> 0, str |-> <<>>]

\* no library function called directly yet
NoLibCall == [op |-> "none"]

NoMatchRun ==
  /\ m_sib = <<>>
  /\ m_in = <<>>
  /\ m_out = NoMatchCall
  /\ lib_in = NoLibCall
  /\ lib_out = NoLibCall

-----------------------------------------------------------------------------
(* Input: one character at a time through the host loop *)
IsPrefix(p, s) == Len(p) <= Len(s) /\ SubSeq(s, 1, Len(p)) = p

ControlKeys == {CR, TOPCHAR, BS, CTRLP, CTRLN, CTRLD}
MenuKeys == {ESC, "[", "A", "B", "C", "D", CR, "q", "0", "1", "2", "3", "4"}

\* the state a pass of the host loop starts in: nothing observed yet
Fresh == [St EXCEPT !.calls = <<>>, !.dispatch = NoDispatch]

\* the live line after typing c
Typed(c) == StrPut(input_buffers[cur_buf_index], cur_index, c)

\* the user types the characters of the lines in `lines`
OnScript(c, lines) ==
  /\ Printable(c) /\ c # TOPCHAR
  /\ \E l \in lines : IsPrefix(Typed(c), l)

\* one pass of the host loop in shell mode: a control key or the next
\* character of a line
ShellPass(c, lines) ==
  /\ in_menu_mode = 0
  /\ c \in ControlKeys \/ OnScript(c, lines)
  /\ c \in {CTRLP, CTRLN} => HISTORY_DEPTH > 1
  /\ Becomes(host_char(Fresh, c).S)
  /\ UNCHANGED <<cfgVars, matchVars>>

TypeShell(c, lines) == ShellPass(c, lines) /\ UNCHANGED fed

\* bytes of the pointer that a store into menu_stack[MENU_MAX_DEPTH] leaves in
\* the storage behind the array
PointerBytes == {0, 255}

\* the outcomes of a pass that started in S0 and computed r. A push made at
\* menu_stack_idx = MENU_MAX_DEPTH - 1 stores the submenu pointer into
\* menu_stack[MENU_MAX_DEPTH], outside the array: in tinysh_menu_state_t the
\* bytes behind menu_stack[] are index_stack[], which then holds bytes of the
\* pointer.
stack_overrun(S0, r) ==
  IF r.S.menu_state.menu_stack_idx > S0.menu_state.menu_stack_idx
       /\ r.S.menu_state.menu_stack_idx >= MENU_MAX_DEPTH
  THEN { [r EXCEPT !.S.menu_state.index_stack = bytes] :
           bytes \in [1..MENU_MAX_DEPTH -> PointerBytes] }
  ELSE {r}

\* one pass of the host loop in menu mode: a navigator key, the next character
\* of an argument line while the prompt collects one, or a character the
\* navigator does not consume, which falls through to the line editor
MenuPass(c, args, lines) ==
  /\ in_menu_mode # 0
  /\ IF collecting_arguments # 0
     THEN \/ c \in {CR, BS}
          \/ /\ Printable(c)
             /\ \E l \in args : IsPrefix(StrPut(arg_buffer, arg_buffer_index, c), l)
     ELSE TRUE
  /\ \E r \in stack_overrun(St, host_char(Fresh, c)) :
        /\ collecting_arguments = 0 =>
              IF r.ret = 0 THEN OnScript(c, lines) ELSE c \in MenuKeys
        /\ Becomes(r.S)
  /\ UNCHANGED <<cfgVars, matchVars>>

TypeMenu(c, args, lines) == MenuPass(c, args, lines) /\ UNCHANGED fed

Chars == {"a", "b", "c", "e", "h", "i", "l", "m", "n", "o", "p", "q", "r", "s",
          "t", "w", "x", "y", SP, "[", "A", "B", "C", "D", "0", "1", "2", "3", "4"}
         \cup ControlKeys \cup {ESC}

\* lines typed at the prompt: authentication, an admin command, quit, menu
AuthLines == { <<"r">>, <<"a", SP, "p", "w">>, <<"a", SP, "x">>, <<"q">>,
               <<"m">> }
\* argument lines typed in the menu's argument prompt
ArgLines == { <<"p", "w">>, <<"x">> }
\* characters typed in menu mode that the navigator does not consume
StrayLines == { <<"r">> }

Init == InitProgram(1, 1) /\ NoMatchRun

Next ==
  \/ \E c \in Chars : TypeShell(c, AuthLines)
  \/ \E c \in Chars : TypeMenu(c, ArgLines, StrayLines)

Spec == Init /\ [][Next]_vars

-----------------------------------------------------------------------------
(* The matching functions on their own: strstart and parse_command applied  *)
(* to a sibling chain and an input line                                      *)

\* sibling names: a name, names it is a proper prefix of, an unrelated one
MatchNames == { <<"l">>, <<"l","i">>, <<"l","i","s","t">>, <<"l","o","a","d">>,
                <<"x">> }
\* siblings in a chain
MaxChain == 3
\* blanks before and after the first token
MaxPad == 1

RECURSIVE Pad(_)
Pad(n) == IF n = 0 THEN <<>> ELSE <<SP>> \o Pad(n - 1)

MatchTokens == { <<>>, <<"l">>, <<"l","i">>, <<"l","i","s">>, <<"l","i","s","t">>,
                 <<"l","i","s","t","x">>, <<"l","o">>, <<"l","o","a","d">>,
                 <<"x">>, <<"y">> }
MatchTails == { <<>>, <<"a">>, <<"a", SP, "b">> }

MatchChains ==
  { ch \in UNION { [1..n -> MatchNames] : n \in 0..MaxChain } :
      \A i, j \in DOMAIN ch : i # j => ch[i] # ch[j] }

MatchInputs ==
  { Pad(a) \o t \o (IF tl = <<>> THEN Pad(b) ELSE Pad(b + 1) \o tl) :
      a \in 0..MaxPad, b \in 0..MaxPad, t \in MatchTokens, tl \in MatchTails }

InitMatch ==
  /\ \E pm \in {0, 1} : InitProgram(pm, 2)
  /\ m_sib \in MatchChains
  /\ m_in \in MatchInputs
  /\ m_out = NoMatchCall
  /\ lib_in = NoLibCall
  /\ lib_out = NoLibCall

\* strstart(m_sib[k], m_in)
CallStrstart(k) ==
  /\ k \in DOMAIN m_sib
  /\ m_out' = [NoMatchCall EXCEPT !.op = "strstart", !.k = k,
                                   !.ret = strstart(m_sib[k], m_in, PARTIAL_MATCH)]
  /\ UNCHANGED <<cfgVars, shellVars, menuVars, obsVars, m_sib, m_in, lib_in, lib_out>>

\* parse_command(&cmd, &str) with cmd the head of m_sib and str = m_in
CallParse ==
  /\ \E r \in {parse_command(m_sib, m_in, PARTIAL_MATCH)} :
        m_out' = [op |-> "parse", k |-> 0, ret |-> r.ret, cmd |-> r.cmd, str |-> r.str]
  /\ UNCHANGED <<cfgVars, shellVars, menuVars, obsVars, m_sib, m_in, lib_in, lib_out>>

NextMatch ==
  \/ \E k \in 1..MaxChain : CallStrstart(k)
  \/ CallParse

SpecMatch == InitMatch /\ [][NextMatch]_vars

-----------------------------------------------------------------------------
(* The dispatch loop: lines typed at the prompt of a shell without menus *)

\* lines that resolve to a leaf with arguments, to a context, to a nested
\* context, and lines that fail at the first or at a later level
DispatchLines ==
  { <<"h", SP, "a", SP, "b", SP, "c">>, <<"h", "e", "l", "p", SP, "a", SP, SP>>,
    <<"n">>, <<"n", "e", "t">>, <<"w">>, <<"s">>, <<SP, "n", SP, "w">>,
    <<"n", SP, "x">>, <<"n", SP, "l">>, <<"n", SP, "l", "i", SP, "a">>,
    <<"l", "i", SP, "a", SP, "b">>, <<"l", "o">>, <<"x">>, <<"w", SP, "s", SP, "a">> }

InitDispatch ==
  /\ \E pm \in {0, 1} : InitProgram(pm, 1)
  /\ NoMatchRun

NextDispatch == \E c \in Chars : TypeShell(c, DispatchLines)

SpecDispatch == InitDispatch /\ [][NextDispatch]_vars

-----
(* The history ring: sessions played at the prompt, character by character *)

HistLetters == {"a", "b", "c"}
\* history keys typed after three one-letter lines
MaxRecall == 3
\* keys typed after the two lines "ab" and "cd"
MaxEdit == 5

\* a session of three one-letter lines, then history-previous/-next keys
ThreeLines(s) ==
  \E x, y, z \in HistLetters :
    IF Len(s) <= 6
    THEN IsPrefix(s, <<x, CR, y, CR, z, CR>>)
    ELSE /\ IsPrefix(<<x, CR, y, CR, z, CR>>, s)
         /\ Len(s) <= 6 + MaxRecall
         /\ \A i \in 7..Len(s) : s[i] \in {CTRLP, CTRLN}

\* a session of the lines "ab" and "cd", then recalls and edits
TwoLines(s) ==
  IF Len(s) <= 6
  THEN IsPrefix(s, <<"a", "b", CR, "c", "d", CR>>)
  ELSE /\ IsPrefix(<<"a", "b", CR, "c", "d", CR>>, s)
       /\ Len(s) <= 6 + MaxEdit
       /\ \A i \in 7..Len(s) : s[i] \in {CTRLP, CTRLN, BS, "x"}

InitHist ==
  /\ \E depth \in {2, 3} : InitProgram(1, depth)
  /\ NoMatchRun

\* one pass of the host loop with the next character of a session
TypeHist(c) ==
  /\ ThreeLines(Append(fed, c)) \/ TwoLines(Append(fed, c))
  /\ fed' = Append(fed, c)
  /\ Becomes(host_char(Fresh, c).S)
  /\ UNCHANGED <<cfgVars, matchVars>>

NextHist == \E c \in Chars \cup {"d"} : TypeHist(c)

SpecHist == InitHist /\ [][NextHist]_vars

-----
(* Properties of the matching functions, stated without the scanning loops *)

\* number of leading blanks of s
LeadLen(s) ==
  CHOOSE n \in 0..Len(s) :
    /\ \A i \in 1..n : s[i] = SP
    /\ n = Len(s) \/ s[n + 1] # SP
\* s without its leading blanks
Stripped(s) == SubSeq(s, LeadLen(s) + 1, Len(s))
\* length of the first token of s: the characters before the first blank
TokenLen(s) ==
  CHOOSE n \in 0..Len(s) :
    /\ \A i \in 1..n : s[i] # SP
    /\ n = Len(s) \/ s[n + 1] = SP
FirstToken(s) == SubSeq(s, 1, TokenLen(s))
AfterToken(s) == SubSeq(s, TokenLen(s) + 1, Len(s))
ProperPrefix(p, s) == Len(p) < Len(s) /\ SubSeq(s, 1, Len(p)) = p

\* the siblings whose name has the first token of the stripped input as a
\* proper prefix, and those whose name equals it
PartialCandidates == { i \in DOMAIN m_sib : ProperPrefix(FirstToken(Stripped(m_in)), m_sib[i]) }
ExactCandidates   == { i \in DOMAIN m_sib : m_sib[i] = FirstToken(Stripped(m_in)) }

\* C3: if a sibling's name equals the input token, parse_command returns MATCH
\* with that sibling, whatever the sibling order and the number of siblings
\* the token is a proper prefix of, and leaves the input after the token and
\* the blanks that follow it.
C3_ExactNameWins ==
  (m_out.op = "parse" /\ ExactCandidates # {}) =>
     /\ m_out.ret = MATCH
     /\ m_out.cmd \in ExactCandidates
     /\ m_out.str = Stripped(AfterToken(Stripped(m_in)))

\* C4: with the partial-match policy on and no sibling named exactly as the
\* token, parse_command returns UNMATCH when no sibling name has the token as
\* a proper prefix, MATCH with the sibling when exactly one has, AMBIG when
\* two or more have; an input that is empty after its leading blanks returns
\* NULLMATCH.
C4_PartialCandidates ==
  (m_out.op = "parse" /\ PARTIAL_MATCH > 0 /\ ExactCandidates = {}) =>
     IF Stripped(m_in) = <<>>
     THEN m_out.ret = NULLMATCH
     ELSE /\ PartialCandidates = {} => m_out.ret = UNMATCH
          /\ Cardinality(PartialCandidates) = 1 =>
               m_out.ret = MATCH /\ m_out.cmd \in PartialCandidates
          /\ Cardinality(PartialCandidates) >= 2 => m_out.ret = AMBIG

\* siblings {list, load}, input "l": ambiguous
C4_Witness ==
  /\ m_out.op = "parse" /\ PARTIAL_MATCH > 0
  /\ m_sib = << <<"l","i","s","t">>, <<"l","o","a","d">> >>
  /\ m_in = <<"l">>
  /\ m_out.ret = AMBIG

\* C5: strstart(name, input) is FULLMATCH iff the first token of input equals
\* name, PARTMATCH iff the token is a proper prefix of name and the
\* partial-match policy is on, UNMATCH in every other case.
C5_Classification ==
  m_out.op = "strstart" =>
     /\ m_out.ret = FULLMATCH <=> FirstToken(m_in) = m_sib[m_out.k]
     /\ m_out.ret = PARTMATCH <=>
          (ProperPrefix(FirstToken(m_in), m_sib[m_out.k]) /\ PARTIAL_MATCH > 0)
     /\ m_out.ret = UNMATCH <=>
          (/\ FirstToken(m_in) # m_sib[m_out.k]
           /\ ~(ProperPrefix(FirstToken(m_in), m_sib[m_out.k]) /\ PARTIAL_MATCH > 0))

\* a full name followed by a blank and more input
C5_Witness ==
  /\ m_out.op = "strstart"
  /\ m_out.ret = FULLMATCH
  /\ Len(m_in) > Len(m_sib[m_out.k])

-----------------------------------------------------------------------------
(* Properties of the history ring *)

\* the line the editor shows
LiveLine == input_buffers[cur_buf_index]

\* the session so far is three one-letter lines x, y, z followed by n
\* history-previous keys
AfterThree(x, y, z, n) ==
  /\ HISTORY_DEPTH = 2
  /\ Len(fed) = 6 + n
  /\ SubSeq(fed, 1, 6) = <<x, CR, y, CR, z, CR>>
  /\ \A i \in 7..Len(fed) : fed[i] = CTRLP

\* C9 (as stated): with history depth 2, after the lines a, b, c, the first
\* history-previous recalls c, the second recalls b, the third recalls
\* nothing and leaves the buffer unchanged.
C9_RecallTwoBack ==
  \A x, y, z \in HistLetters :
    /\ AfterThree(x, y, z, 1) => LiveLine = <<z>>
    /\ AfterThree(x, y, z, 2) => LiveLine = <<y>>
    /\ AfterThree(x, y, z, 3) => LiveLine = <<y>>

\* C9 (amended): with history depth 2, after the lines a, b, c, the first
\* history-previous recalls c; the second and the third recall nothing and
\* leave the buffer showing c: the slot that held b was cleared when c was
\* submitted.
C9_RecallOneBack ==
  \A x, y, z \in HistLetters :
    \A n \in 1..MaxRecall : AfterThree(x, y, z, n) => LiveLine = <<z>>

\* a, b, c submitted, history-previous typed twice
C9_Witness ==
  /\ AfterThree("a", "b", "c", 2)
  /\ LiveLine = <<"c">>

\* the session so far is the lines "ab" and "cd" and keys that submit nothing
AfterTwo ==
  /\ HISTORY_DEPTH = 3
  /\ Len(fed) >= 6
  /\ SubSeq(fed, 1, 6) = <<"a", "b", CR, "c", "d", CR>>

\* C10: recalled history entries are read-only until resubmitted: whatever
\* is typed after a recall, the stored entries stay as they were submitted,
\* and a recall shows one of them as it was submitted.
C10_RecalledReadOnly ==
  AfterTwo =>
    /\ input_buffers[0] = <<"a", "b">>
    /\ input_buffers[1] = <<"c", "d">>
    /\ (fed[Len(fed)] \in {CTRLP, CTRLN} /\ cur_buf_index # 2) =>
          LiveLine \in { <<"a", "b">>, <<"c", "d">> }

-----------------------------------------------------------------------------
(* Properties of the dispatch loop *)

\* the blank-separated tokens of s, in order
RECURSIVE Tokens(_)
Tokens(s) ==
  IF Stripped(s) = <<>> THEN <<>>
  ELSE <<FirstToken(Stripped(s))>> \o Tokens(AfterToken(Stripped(s)))

\* descriptor c lies below descriptor d in the command tree
RECURSIVE IsBelow(_, _)
IsBelow(c, d) ==
  /\ c # 0
  /\ root_cmd[c].parent # 0
  /\ root_cmd[c].parent = d \/ IsBelow(root_cmd[c].parent, d)

\* the children of d (0: the root chain) whose name starts with tok
Candidates(d, tok) ==
  { c \in DOMAIN root_cmd : root_cmd[c].parent = d /\ IsPrefix(tok, root_cmd[c].name) }

\* C6: a handler reached from a submitted line is called with argv[0] the
\* canonical name of its descriptor, followed by the first MAX_ARGS-1 tokens
\* of the unconsumed remainder in their order; argc never exceeds MAX_ARGS.
C6_ArgvOfLeaf ==
  \A i \in DOMAIN calls :
    calls[i].via = "shell" =>
      /\ ~HasChild(calls[i].cmd)
      /\ calls[i].argv[1] = root_cmd[calls[i].cmd].name
      /\ Len(calls[i].argv) <= MAX_ARGS
      /\ Len(calls[i].argv) =
           1 + (IF Len(Tokens(dispatch.rest)) > MAX_ARGS - 1
                THEN MAX_ARGS - 1 ELSE Len(Tokens(dispatch.rest)))
      /\ \A k \in 2..Len(calls[i].argv) :
           calls[i].argv[k] = Tokens(dispatch.rest)[k - 1]

\* an abbreviated command with more arguments than argv holds
C6_Witness ==
  /\ calls # <<>>
  /\ calls[1].via = "shell"
  /\ calls[1].argv[1] # FirstToken(dispatch.line)
  /\ Len(Tokens(dispatch.rest)) > MAX_ARGS - 1
  /\ Len(calls[1].argv) = MAX_ARGS

\* a submission that establishes a context: no handler runs, the context is
\* the matched descriptor, which has children
ContextEstablished ==
  dispatch'.kind = "context" =>
    /\ calls' = <<>>
    /\ HasChild(dispatch'.cmd)
    /\ cur_cmd_ctx' = dispatch'.cmd

\* a one-token line whose token selects exactly one child of the context,
\* that child having children, establishes it as the context
OneTokenContext ==
  (/\ dispatch'.kind # "none"
   /\ PARTIAL_MATCH > 0
   /\ Tokens(dispatch'.line) = <<dispatch'.line>>
   /\ \E c \in Candidates(cur_cmd_ctx, dispatch'.line) :
         Candidates(cur_cmd_ctx, dispatch'.line) = {c} /\ HasChild(c))
  => /\ dispatch'.kind = "context"
     /\ dispatch'.cmd \in Candidates(cur_cmd_ctx, dispatch'.line)

\* a line submitted in a context is matched against the children of the
\* context: what it resolves to lies below the context
MatchedBelowContext ==
  (dispatch'.kind # "none" /\ cur_cmd_ctx # 0) =>
     /\ dispatch'.from = cur_cmd_ctx
     /\ dispatch'.kind \in {"exec", "refused", "context"} =>
          IsBelow(dispatch'.cmd, cur_cmd_ctx)

\* C7 (as stated): a line that resolves to a descriptor with children and no
\* input left calls no handler and makes that descriptor the context, with
\* the typed line as breadcrumb; later lines are matched against its
\* children, and the context stays until it is cleared.
C7_ContextUntilCleared ==
  [][ /\ ContextEstablished
      /\ OneTokenContext
      /\ MatchedBelowContext
      /\ dispatch'.kind = "context" => context_buffer' = dispatch'.line
      /\ cur_cmd_ctx # 0 => cur_cmd_ctx' \in {cur_cmd_ctx, 0} ]_vars

\* C7 (amended): ... the typed line is appended to the breadcrumb; later
\* lines are matched against the children of the context, and the context
\* stays until it is cleared or a later line establishes a descriptor below
\* it as the new context.
C7_ContextUntilClearedOrDeeper ==
  [][ /\ ContextEstablished
      /\ OneTokenContext
      /\ MatchedBelowContext
      /\ dispatch'.kind = "context" =>
           context_buffer' = Take(context_buffer, cur_context) \o dispatch'.line
      /\ cur_cmd_ctx # 0 =>
           \/ cur_cmd_ctx' \in {cur_cmd_ctx, 0}
           \/ dispatch'.kind = "context" /\ IsBelow(cur_cmd_ctx', cur_cmd_ctx) ]_vars

\* a line submitted in the context net that resolved to a leaf below it
C7_Witness ==
  /\ cur_cmd_ctx = net_cmd
  /\ dispatch.from = net_cmd
  /\ dispatch.kind = "exec"
  /\ dispatch.cmd = list_cmd
  /\ context_buffer = <<"n">>

\* C8: a submission that ends Ambiguous or Unmatched at any level calls no
\* handler and leaves the context and the breadcrumb as they were.
C8_FailedLineChangesNothing ==
  [][ dispatch'.kind \in {AMBIG, UNMATCH} =>
        /\ calls' = <<>>
        /\ cur_cmd_ctx' = cur_cmd_ctx
        /\ context_buffer' = context_buffer
        /\ cur_context' = cur_context ]_vars

\* a line whose first level matched and whose second level is ambiguous
C8_Witness ==
  /\ dispatch.kind = AMBIG
  /\ dispatch.line = <<"n", SP, "l">>
  /\ dispatch.rest = <<"l">>
  /\ calls = <<>>

-----------------------------------------------------------------------------
(* Properties of the privilege gate *)

\* the item under the menu cursor is admin-flagged
S_item_admin ==
  /\ menu_state.current_menu # 0
  /\ menu_state.current_index < item_count(St, menu_state.current_menu)
  /\ "ADMIN" \in current_item(St).type

\* the handlers of the admin-flagged descriptors and menu items
AllItems ==
  UNION { { menus[m].items[i] : i \in DOMAIN menus[m].items } : m \in DOMAIN menus }
AdminHandlers ==
  ( { root_cmd[c].function : c \in { d \in DOMAIN root_cmd : tinysh_is_admin_command(d) } }
    \cup { it.function : it \in { x \in AllItems : "ADMIN" \in x.type } } ) \ {NULL}

\* C1: whatever is typed at the prompt and in the menus, no handler of an
\* admin-flagged descriptor or menu item runs while the privilege level is
\* None, and a refused dispatch runs no handler at all.
C1_NoAdminHandlerAtNone ==
  /\ \A i \in DOMAIN calls :
       (\/ calls[i].fn \in AdminHandlers
        \/ calls[i].cmd # 0 /\ tinysh_is_admin_command(calls[i].cmd))
       => calls[i].level >= TINYSH_AUTH_ADMIN
  /\ dispatch.kind = "refused" => calls = <<>>

\* an admin item selected in the menu at level None: acknowledgement is
\* awaited and nothing ran
C1_Witness ==
  /\ in_menu_mode = 1
  /\ waiting_for_keypress = 1
  /\ tinysh_auth_level = TINYSH_AUTH_NONE
  /\ S_item_admin
  /\ calls = <<>>

\* at the prompt, an admin command is refused at level None and executed at
\* level Admin
ShellGate ==
  (dispatch'.kind \in {"exec", "refused"} /\ tinysh_is_admin_command(dispatch'.cmd)) =>
     IF tinysh_auth_level < TINYSH_AUTH_ADMIN
     THEN /\ dispatch'.kind = "refused"
          /\ \A i \in DOMAIN calls' : calls'[i].cmd # dispatch'.cmd
     ELSE /\ dispatch'.kind = "exec"
          /\ calls' # <<>>
          /\ calls'[Len(calls')].cmd = dispatch'.cmd
          /\ calls'[Len(calls')].fn = root_cmd[dispatch'.cmd].function

\* in the menu, a selected admin item is refused at level None and executed
\* at level Admin (the step is the one that starts awaiting acknowledgement)
MenuGate ==
  (/\ in_menu_mode = 1 /\ collecting_arguments = 0
   /\ waiting_for_keypress = 0 /\ waiting_for_keypress' = 1
   /\ S_item_admin) =>
     IF tinysh_auth_level < TINYSH_AUTH_ADMIN
     THEN \A i \in DOMAIN calls' : calls'[i].fn \notin AdminHandlers
     ELSE calls' # <<>> /\ calls'[Len(calls')].fn \in AdminHandlers

\* a submitted "auth <secret>" with the compiled-in secret elevates
AuthElevates ==
  (/\ dispatch'.kind = "exec" /\ dispatch'.cmd = auth_cmd
   /\ Tokens(dispatch'.rest) = <<DEFAULT_ADMIN_PASSWORD>>) =>
     tinysh_auth_level' = TINYSH_AUTH_ADMIN

\* quit revokes
QuitRevokes ==
  (dispatch'.kind = "exec" /\ dispatch'.cmd = quit_cmd) =>
     tinysh_auth_level' = TINYSH_AUTH_NONE

\* nothing but the auth and quit handlers changes the level
LevelByAuthAndQuit ==
  tinysh_auth_level' # tinysh_auth_level =>
    \E i \in DOMAIN calls' : calls'[i].fn \in {"auth_cmd_handler", "quit_fnt"}

\* C2: an admin command or menu item is refused while the level is None, is
\* executed once a submitted "auth <secret>" with the compiled-in secret has
\* raised the level, and is refused again once quit has revoked it.
C2_PrivilegeLifecycle ==
  [][ /\ ShellGate
      /\ MenuGate
      /\ AuthElevates
      /\ QuitRevokes
      /\ LevelByAuthAndQuit ]_vars

\* the admin command refused after authentication and quit
C2_Witness ==
  /\ dispatch.kind = "refused"
  /\ dispatch.cmd = reboot_cmd
  /\ tinysh_auth_level = TINYSH_AUTH_NONE
  /\ tinyshell_active = 0

-----------------------------------------------------------------------------
(* The tokenizer on its own: tinysh_tokenize called by the host *)

TokChars == {"a", "b", SP}
\* length of the tokenized strings
MaxTokLen == 5
\* largest max_arg
MaxTokArg == 3

one_two_three ==
  <<"o","n","e",SP,"t","w","o",SP,"t","h","r","e","e">>

TokStrings ==
  UNION { [1..n -> TokChars] : n \in 0..MaxTokLen } \cup {one_two_three}

InitTok ==
  /\ InitProgram(1, 1)
  /\ m_sib = <<>> /\ m_in = <<>> /\ m_out = NoMatchCall
  /\ \E s \in TokStrings, sn \in BOOLEAN, vn \in BOOLEAN,
        d \in {SP, "b"}, n \in 0..MaxTokArg :
        lib_in = [op |-> "tinysh_tokenize", str_null |-> sn,
                  str |-> IF sn THEN <<>> ELSE s,
                  token |-> d, vector_null |-> vn, max_arg |-> n]
  /\ lib_out = NoLibCall

\* argc = tinysh_tokenize(str, token, vector, max_arg)
CallTokenize ==
  /\ lib_in.op = "tinysh_tokenize"
  /\ \E r \in {tinysh_tokenize_entry(lib_in.str_null, lib_in.str, lib_in.token,
                                     lib_in.vector_null, lib_in.max_arg)} :
        lib_out' = [op |-> "tinysh_tokenize", argc |-> r.argc, vector |-> r.vector]
  /\ UNCHANGED <<cfgVars, shellVars, menuVars, obsVars, m_sib, m_in, m_out, lib_in>>

NextTok == CallTokenize

SpecTok == InitTok /\ [][NextTok]_vars

\* the maximal runs of characters other than d in s, by position: a run
\* starts where a non-delimiter follows a delimiter or the start of s, and
\* ends before the next delimiter or at the end of s
RunStarts(s, d) ==
  { i \in 1..Len(s) : s[i] # d /\ (i = 1 \/ s[i - 1] = d) }
RunEnd(s, d, i) ==
  CHOOSE j \in i..Len(s) :
    /\ \A k \in i..j : s[k] # d
    /\ j = Len(s) \/ s[j + 1] = d
NthStart(s, d, k) ==
  CHOOSE i \in RunStarts(s, d) :
    Cardinality({ j \in RunStarts(s, d) : j < i }) = k - 1
Runs(s, d) ==
  [k \in 1..Cardinality(RunStarts(s, d)) |->
     SubSeq(s, NthStart(s, d, k), RunEnd(s, d, NthStart(s, d, k)))]
MinOf(a, b) == IF a < b THEN a ELSE b

\* C11: tinysh_tokenize returns the maximal runs of non-delimiter characters
\* of str in order, cut to the first max_arg runs; no token is empty, argc
\* is at most max_arg, "one two three" gives one, two, three, and a null str
\* or a null vector gives 0.
C11_TokenizeRuns ==
  lib_out.op = "tinysh_tokenize" =>
    /\ lib_out.argc <= lib_in.max_arg
    /\ lib_out.argc = Len(lib_out.vector)
    /\ \A i \in DOMAIN lib_out.vector : lib_out.vector[i] # <<>>
    /\ IF lib_in.str_null \/ lib_in.vector_null
       THEN lib_out.argc = 0
       ELSE /\ lib_out.argc = MinOf(lib_in.max_arg,
                                    Len(Runs(lib_in.str, lib_in.token)))
            /\ lib_out.vector =
                 SubSeq(Runs(lib_in.str, lib_in.token), 1, lib_out.argc)
    /\ (/\ ~lib_in.str_null /\ ~lib_in.vector_null
        /\ lib_in.str = one_two_three /\ lib_in.token = SP /\ lib_in.max_arg = 3)
       => lib_out.vector = << <<"o","n","e">>, <<"t","w","o">>,
                              <<"t","h","r","e","e">> >>

\* leading, repeated and trailing delimiters, and a run cut off by max_arg
C11_Witness ==
  /\ lib_out.op = "tinysh_tokenize"
  /\ lib_in.str = <<SP, "a", SP, SP, "b">>
  /\ lib_in.token = SP
  /\ ~lib_in.str_null /\ ~lib_in.vector_null
  /\ lib_in.max_arg = 1
  /\ lib_out.vector = << <<"a">> >>

-----------------------------------------------------------------------------
(* The menu navigator: the keys fed by the host loop, each one recorded *)

\* the line that enters menu mode, and what is typed in menu mode besides
\* the navigator's keys
MenuLines == { <<"m">> }
MenuStrays == { <<SP>> }
\* what is typed at the argument prompt
MenuArgs == { <<"x">> }

\* the root menu is the main menu, or a menu that holds a "back" item
InitMenu ==
  /\ \E root_menu \in {main_menu, system_menu} : InitProgramRoot(1, 1, root_menu)
  /\ NoMatchRun

\* one pass of the host loop; fed is the character of the pass
KeyShell(c) == c \in {"m", CR} /\ ShellPass(c, MenuLines) /\ fed' = <<c>>
KeyMenu(c) == MenuPass(c, MenuArgs, MenuStrays) /\ fed' = <<c>>

NextMenu ==
  \/ \E c \in Chars : KeyShell(c)
  \/ \E c \in Chars : KeyMenu(c)

SpecMenu == InitMenu /\ [][NextMenu]_vars

\* the navigator is browsing: in menu mode, no argument prompt, no
\* acknowledgement awaited
Browsing ==
  in_menu_mode # 0 /\ collecting_arguments = 0 /\ waiting_for_keypress = 0

\* the pass is fed the final character c of an arrow-key sequence
ArrowKey(c) ==
  Browsing /\ in_escape_seq # 0 /\ escape_char_count = 1 /\ fed' = <<c>>

StackUnchanged ==
  /\ menu_state'.menu_stack = menu_state.menu_stack
  /\ menu_state'.index_stack = menu_state.index_stack
  /\ menu_state'.menu_stack_idx = menu_state.menu_stack_idx
  /\ menu_state'.current_menu = menu_state.current_menu

ItemCount == item_count(St, menu_state.current_menu)

\* C12: while browsing a menu with at least one item, down on the last item
\* selects index 0, up on index 0 selects the last item, any other up or
\* down moves the selection by one, and the navigation stack is unchanged.
C12_SelectionWraps ==
  [][ /\ (ArrowKey("B") /\ ItemCount >= 1) =>
           /\ menu_state'.current_index =
                IF menu_state.current_index = ItemCount - 1 THEN 0
                ELSE menu_state.current_index + 1
           /\ StackUnchanged
      /\ (ArrowKey("A") /\ ItemCount >= 1) =>
           /\ menu_state'.current_index =
                IF menu_state.current_index = 0 THEN ItemCount - 1
                ELSE menu_state.current_index - 1
           /\ StackUnchanged ]_vars

\* up was pressed on the first item of the system menu: its last item is
\* selected
C12_Witness ==
  /\ Browsing
  /\ fed = <<"A">>
  /\ menu_state.current_menu = system_menu
  /\ menu_state.menu_stack_idx = 1
  /\ menu_state.current_index = ItemCount - 1
  /\ menu_state.index_stack[1] = 0

\* the pass executes the selected item: Enter, or the right-arrow sequence
ExecKey == Browsing /\ (fed' = <<CR>> \/ ArrowKey("C"))

Selected == current_item(St)

\* level k of the navigation stack (0 = root) was left through the item its
\* saved index points to: a submenu reference to the menu of level k + 1, or
\* a command reference whose synthesized submenu that menu is
EnteredThrough(k) ==
  LET it == MenuOf(St, menu_state.menu_stack[k + 1]).items[menu_state.index_stack[k + 1] + 1]
      below == menu_state.menu_stack[k + 2] IN
  /\ "SUBMENU" \in it.type
  /\ IF "CMD_REF" \in it.type
     THEN MenuOf(St, below).title = it.title \o <<" ","C","o","m","m","a","n","d","s">>
     ELSE it.submenu = below

\* a "back" item executed below the root pops exactly one level: the parent
\* menu is current again, with the selection on the item through which the
\* submenu was entered
BackPops ==
  /\ tinysh_menu_go_back_ret(St) = 1
  /\ menu_state'.menu_stack_idx = menu_state.menu_stack_idx - 1
  /\ menu_state'.current_menu = menu_state.menu_stack[menu_state.menu_stack_idx]
  /\ menu_state'.current_index = menu_state.index_stack[menu_state.menu_stack_idx]
  /\ EnteredThrough(menu_state.menu_stack_idx - 1)
  /\ in_menu_mode' = in_menu_mode

C13_WitnessBelow ==
  /\ Browsing
  /\ fed = <<CR>>
  /\ menu_state.menu_stack_idx = 1
  /\ menu_state.current_menu = cmd_menu
  /\ menu_state.current_index > 0
  /\ submenu_count > 0

-----------------------------------------------------------------------------
(* Entering and leaving menu mode through the public interface *)

\* the host calls tinysh_menu_exit() (tinysh_menu.h: "Exit menu mode and
\* return to command line") while the navigator is browsing
HostExit ==
  /\ Browsing /\ in_escape_seq = 0
  /\ Becomes(tinysh_menu_exit(Fresh))
  /\ fed' = <<"tinysh_menu_exit">>
  /\ UNCHANGED <<cfgVars, matchVars>>

\* the host calls tinysh_menu_enter(), as main does when started with the
\* menu requested
HostEnter ==
  /\ in_menu_mode = 0
  /\ Becomes(tinysh_menu_enter(Fresh))
  /\ fed' = <<"tinysh_menu_enter">>
  /\ UNCHANGED <<cfgVars, matchVars>>

\* the keys of the walk: Enter, Back, the shortcut of the second item and the
\* letter of the menu command
EnterKeys == {CR, "q", "1", "m"}

NextEnter ==
  \/ \E c \in EnterKeys : KeyShell(c)
  \/ \E c \in EnterKeys : KeyMenu(c)
  \/ HostExit
  \/ HostEnter

SpecEnter == InitMenu /\ [][NextEnter]_vars

\* C14: whenever menu mode is entered, the navigator is browsing at the root
\* of the navigation stack: the stack index is 0 and the current menu is the
\* root menu, at whatever depth menu mode was left before.
C14_EnterAtRoot ==
  [][ (in_menu_mode = 0 /\ in_menu_mode' # 0) =>
        /\ waiting_for_keypress' = 0 /\ collecting_arguments' = 0
        /\ menu_state'.menu_stack_idx = 0
        /\ menu_state'.current_menu = menu_state'.menu_stack[1] ]_vars

\* menu mode was left one level down and entered again: the root menu is
\* shown while the stack index still says one level down
C14_StaleDepth ==
  /\ in_menu_mode # 0
  /\ fed \in {<<CR>>, <<"tinysh_menu_enter">>}
  /\ menu_state.current_menu = menu_state.menu_stack[1]
  /\ menu_state.menu_stack_idx > 0

-----------------------------------------------------------------------------
(* The two input modes *)

\* C15: while menu mode is on, every character the host loop feeds is
\* consumed by the navigator (the hook reports it consumed), so no typed
\* character reaches or changes the live buffer of the line editor.
C15_MenuConsumesAll ==
  [][ \A c \in Chars :
        (in_menu_mode # 0 /\ fed' = <<c>>) =>
           /\ tinysh_menu_hook(Fresh, c).ret # 0
           /\ (c \notin MenuKeys =>
                 /\ input_buffers'[cur_buf_index'] = input_buffers[cur_buf_index]
                 /\ cur_index' = cur_index) ]_vars

\* a space typed while browsing sits in the live buffer of the line editor
C15_StrayInBuffer ==
  /\ Browsing
  /\ fed = <<SP>>
  /\ input_buffers[cur_buf_index] = <<SP>>
  /\ cur_index = 1

-----------------------------------------------------------------------------
(* The depth of the navigation stack *)

\* the keys of the walk: Enter, the shortcuts of the "Commands" item of the
\* main menu and of the "net" item of the command menu, the letter of the
\* menu command
DepthKeys == {CR, "2", "3", "m"}

InitDepth == InitProgramRoot(1, 1, main_menu) /\ NoMatchRun

NextDepth ==
  \/ \E c \in DepthKeys : KeyShell(c)
  \/ \E c \in DepthKeys : KeyMenu(c)
  \/ HostExit
  \/ HostEnter

SpecDepth == InitDepth /\ [][NextDepth]_vars

\* the item selected is a submenu reference, static or to a command with
\* children
Activation ==
  /\ ExecKey
  /\ menu_state.current_index < ItemCount
  /\ "SUBMENU" \in Selected.type
  /\ ("ADMIN" \in Selected.type => tinysh_auth_level >= TINYSH_AUTH_ADMIN)

\* C16: the navigation stack index stays at most MENU_MAX_DEPTH - 1; the
\* activation of a submenu reference, static or to a command with children,
\* made when the stack has no spare depth pushes nothing and leaves the
\* current menu unchanged.
C16_DepthCapped ==
  /\ [](menu_state.menu_stack_idx <= MENU_MAX_DEPTH - 1)
  /\ [][ (Activation /\ menu_state.menu_stack_idx >= MENU_MAX_DEPTH - 1) =>
           /\ menu_state'.menu_stack_idx = menu_state.menu_stack_idx
           /\ menu_state'.menu_stack = menu_state.menu_stack
           /\ menu_state'.current_menu = menu_state.current_menu ]_vars

\* a synthesized command submenu was entered with the stack full
C16_PushedPastTheTop ==
  /\ in_menu_mode # 0
  /\ menu_state.menu_stack_idx = MENU_MAX_DEPTH
  /\ menu_state.current_menu = PoolMenu(0)

-----------------------------------------------------------------------------
(* The menus the navigator builds *)

MaxRoots == 11
MaxKids == 11

BuildLetters == <<"a", "b", "c", "e", "h", "i", "l", "n", "o", "p", "r", "s">>

\* a host that has registered n root commands, the first of them with k
\* children, and after them the menu command if the menu is initialised first
BuildCmds(n, k, with_menu) ==
  [i \in 1..n |->
     [name |-> <<"r", BuildLetters[i]>>, parent |-> 0, usage |-> _NOARG_,
      function |-> "help_fnt", arg |-> NullPtr]]
  \o [j \in 1..(IF n > 0 THEN k ELSE 0) |->
     [name |-> <<"k", BuildLetters[j]>>, parent |-> 1, usage |-> _NOARG_,
      function |-> "help_fnt", arg |-> NullPtr]]
  \o (IF with_menu THEN <<Cmd[menu_cmd]>> ELSE <<>>)

InitBuild ==
  /\ \E n \in 0..MaxRoots, k \in 0..MaxKids, with_menu \in BOOLEAN :
        InitProgramCmds(1, 1, main_menu, BuildCmds(n, k, with_menu))
  /\ m_sib = <<>> /\ m_in = <<>> /\ m_out = NoMatchCall
  /\ lib_in = NoLibCall
  /\ lib_out = NoLibCall

\* the host calls tinysh_generate_cmd_menu()
CallGenerate ==
  /\ lib_in' = [op |-> "tinysh_generate_cmd_menu"]
  /\ lib_out' = [op |-> "menu", menu |-> tinysh_generate_cmd_menu]
  /\ UNCHANGED <<cfgVars, shellVars, menuVars, obsVars, m_sib, m_in, m_out>>

\* the item of the command cmd is activated in the command menu: the submenu
\* left in the first pool slot
CallSynth(cmd) ==
  /\ cmd \in DOMAIN root_cmd
  /\ root_cmd[cmd].parent = 0 /\ HasChild(cmd)
  /\ lib_in' = [op |-> "execute_menu_item", cmd |-> cmd]
  /\ lib_out' = [op |-> "menu", menu |-> synth_submenu(Fresh, cmd).cmd_submenus[1]]
  /\ UNCHANGED <<cfgVars, shellVars, menuVars, obsVars, m_sib, m_in, m_out>>

NextBuild ==
  \/ CallGenerate
  \/ \E cmd \in 1..MaxRoots : CallSynth(cmd)

SpecBuild == InitBuild /\ [][NextBuild]_vars

\* C17: every menu the navigator builds, the generated command menu and each
\* synthesized command submenu, has an item count of at most MENU_MAX_ITEMS,
\* the capacity of its item array, and no item is written beyond it.
C17_MenusWithinCapacity ==
  lib_out.op = "menu" => Len(lib_out.menu.items) <= MENU_MAX_ITEMS

\* the command menu generated for ten root commands: ten command items and
\* the back item
C17_ElevenItems ==
  /\ lib_in.op = "tinysh_generate_cmd_menu"
  /\ lib_out.op = "menu"
  /\ Len(lib_out.menu.items) = MENU_MAX_ITEMS + 1

\* a submenu synthesized for a command with more children than fit: it holds
\* MENU_MAX_ITEMS - 1 of them and the back item
C17_SubmenuClamped ==
  /\ lib_in.op = "execute_menu_item"
  /\ lib_out.op = "menu"
  /\ Len(Chain(lib_in.cmd)) > MENU_MAX_ITEMS - 1
  /\ Len(lib_out.menu.items) = MENU_MAX_ITEMS

-----------------------------------------------------------------------------
(* The breadcrumb *)

\* lines that establish the contexts net and net/wifi: the first is padded
\* with blanks to the full length of the live buffer
CrumbLines ==
  { <<"n", "e", "t">> \o Pad(BUFFER_SIZE - 3), <<"n", "e", "t">>,
    <<"w", "i", "f", "i">>, <<"w">> }

InitCrumb ==
  /\ \E pm \in {0, 1} : InitProgram(pm, 1)
  /\ NoMatchRun

\* context_buffer[] has BUFFER_SIZE + 1 elements: a store of do_context beyond
\* them lands in other objects and what the program does next is undefined;
\* no pass is explored after it.
CrumbStored == Len(context_buffer) <= BUFFER_SIZE /\ cur_context <= BUFFER_SIZE

NextCrumb == \E c \in Chars : CrumbStored /\ TypeShell(c, CrumbLines)

SpecCrumb == InitCrumb /\ [][NextCrumb]_vars

\* C18: the accumulated breadcrumb never exceeds the capacity of its buffer,
\* BUFFER_SIZE characters and the terminator: establishing contexts, nested
\* as deep as the command tree allows, clamps the breadcrumb.
C18_BreadcrumbFits ==
  /\ Len(context_buffer) <= BUFFER_SIZE
  /\ cur_context <= BUFFER_SIZE

\* the line "wifi" was submitted in the context established by "net" and
\* blanks up to the full length of a line: the breadcrumb is longer than its
\* buffer
C18_Overrun ==
  /\ cur_cmd_ctx = wifi_cmd
  /\ Len(context_buffer) > BUFFER_SIZE
  /\ cur_context = Len(context_buffer)

-----------------------------------------------------------------------------
(* Registration: tinysh_add_command on the links of the descriptors *)

\* descriptors 1..MaxDesc; descriptor 1 is help_cmd, the head of the root
\* chain before any registration (static tinysh_cmd_t *root_cmd=&help_cmd)
MaxDesc == 5
Descs == 1..MaxDesc

\* the links as the loader leaves them: next and child are 0 ("must be set to
\* 0 at init"), parent is what the host wrote in the descriptor
Links(parent) ==
  [op |-> "links", root |-> 1, parent |-> parent,
   next |-> [d \in Descs |-> 0], child |-> [d \in Descs |-> 0]]

\* the walk of tinysh_add_command that appends without looking for cmd
RECURSIVE add_walk_nodup(_, _, _, _)
add_walk_nodup(R, cm, cmd, fuel) ==
  IF R.next[cm] # 0 /\ fuel > 0
  THEN add_walk_nodup(R, R.next[cm], cmd, fuel - 1)
  ELSE [R EXCEPT !.next[cm] = cmd]

\* while(cm->next) { if(cm == cmd) return; cm=cm->next; }
\* if(cm == cmd) return; cm->next=cmd;
\* fuel bounds the walk by the number of descriptors
RECURSIVE add_walk(_, _, _, _)
add_walk(R, cm, cmd, fuel) ==
  IF R.next[cm] # 0 /\ fuel > 0
  THEN IF cm = cmd THEN R ELSE add_walk(R, R.next[cm], cmd, fuel - 1)
  ELSE IF cm = cmd THEN R ELSE [R EXCEPT !.next[cm] = cmd]

\* void tinysh_add_command(tinysh_cmd_t *cmd)
tinysh_add_command(R, cmd) ==
  IF R.parent[cmd] # 0
  THEN IF R.child[R.parent[cmd]] = 0
       THEN [R EXCEPT !.child[R.parent[cmd]] = cmd]
       ELSE add_walk(R, R.child[R.parent[cmd]], cmd, MaxDesc)
  ELSE IF R.root = 0
       THEN [R EXCEPT !.root = cmd]
       ELSE add_walk(R, R.root, cmd, MaxDesc)

\* every descriptor but help_cmd names a parent among the descriptors before
\* it, or none
InitAdd ==
  /\ InitProgram(1, 1)
  /\ m_sib = <<>> /\ m_in = <<>> /\ m_out = NoMatchCall
  /\ lib_in = NoLibCall
  /\ \E parent \in [Descs -> 0..(MaxDesc - 1)] :
        /\ parent[1] = 0
        /\ \A d \in Descs : parent[d] < d
        /\ lib_out = Links(parent)

\* the host registers descriptor cmd
CallAdd(cmd) ==
  /\ lib_out.op = "links"
  /\ lib_in' = [op |-> "tinysh_add_command", cmd |-> cmd]
  /\ lib_out' = tinysh_add_command(lib_out, cmd)
  /\ UNCHANGED <<cfgVars, shellVars, menuVars, obsVars, m_sib, m_in, m_out>>

NextAdd == \E cmd \in Descs : CallAdd(cmd)

SpecAdd == InitAdd /\ [][NextAdd]_vars

\* the chain that starts at descriptor p, following next
RECURSIVE LinkWalk(_, _, _)
LinkWalk(R, p, fuel) ==
  IF p = 0 \/ fuel = 0 THEN <<>> ELSE <<p>> \o LinkWalk(R, R.next[p], fuel - 1)

\* the sibling chain of parent p (0: the root chain)
LinkChain(R, p) == LinkWalk(R, IF p = 0 THEN R.root ELSE R.child[p], MaxDesc + 1)

\* the chain ends and holds no descriptor twice
ChainSound(ch) ==
  /\ Len(ch) <= MaxDesc
  /\ \A i, j \in 1..Len(ch) : ch[i] = ch[j] => i = j

InChain(ch, d) == \E i \in 1..Len(ch) : ch[i] = d

\* C19: tinysh_add_command appends the descriptor at the end of the child
\* chain of its parent, or of the root chain when it has none, so that
\* siblings are in registration order; for a descriptor already in that chain
\* it changes nothing. Every chain stays acyclic and holds each descriptor at
\* most once.
C19_AppendOrNothing ==
  [][ \A cmd \in Descs :
        (lib_in' = [op |-> "tinysh_add_command", cmd |-> cmd]) =>
          /\ IF InChain(LinkChain(lib_out, lib_out.parent[cmd]), cmd)
             THEN lib_out' = lib_out
             ELSE LinkChain(lib_out', lib_out.parent[cmd])
                    = Append(LinkChain(lib_out, lib_out.parent[cmd]), cmd)
          /\ \A p \in (0..MaxDesc) \ {lib_out.parent[cmd]} :
                LinkChain(lib_out', p) = LinkChain(lib_out, p)
          /\ \A p \in 0..MaxDesc : ChainSound(LinkChain(lib_out', p))
          /\ lib_out'.parent = lib_out.parent ]_vars

\* a descriptor in the middle of a chain of three was registered again, after
\* its two siblings had been registered in the order 3, 2
C19_Witness ==
  /\ lib_in = [op |-> "tinysh_add_command", cmd |-> 3]
  /\ lib_out.op = "links"
  /\ \E p \in 0..MaxDesc :
        /\ Len(LinkChain(lib_out, p)) >= 3
        /\ \E i \in 2..(Len(LinkChain(lib_out, p)) - 1) :
              /\ LinkChain(lib_out, p)[i] = 3
              /\ LinkChain(lib_out, p)[i + 1] = 2

-----------------------------------------------------------------------------
(* The keys that execute an item *)

\* the pass leaves the program as S, the position in an escape sequence apart
PostIs(S) ==
  [St EXCEPT !.in_escape_seq = 0, !.escape_char_count = 0]'
    = [S EXCEPT !.in_escape_seq = 0, !.escape_char_count = 0]

\* the pass executes item d of the current menu
ExecutesItem(d) ==
  PostIs(tinysh_menu_execute_selection([Fresh EXCEPT !.menu_state.current_index = d]))

\* the pass is fed the digit of an item of the current menu
DigitKey(d) == Browsing /\ d < ItemCount /\ d < 10 /\ fed' = <<Digits[d + 1]>>

\* C20 (as stated): while browsing, Enter and space execute the selected
\* item, and a numeric key d with d < item_count selects item d and then
\* executes it.
C20_KeysExecute ==
  [][ /\ (Browsing /\ fed' \in {<<CR>>, <<SP>>}) =>
           ExecutesItem(menu_state.current_index)
      /\ \A d \in 0..(MENU_MAX_ITEMS - 1) : DigitKey(d) => ExecutesItem(d) ]_vars

\* C20 (amended): while browsing, Enter executes the selected item; a numeric
\* key d with d < item_count selects item d and executes nothing; a space is
\* not a key of the navigator: it moves nothing in the menu and executes
\* nothing.
C20_EnterExecutes ==
  [][ /\ (Browsing /\ fed' = <<CR>>) => ExecutesItem(menu_state.current_index)
      /\ \A d \in 0..(MENU_MAX_ITEMS - 1) :
           DigitKey(d) =>
             /\ menu_state'.current_index = d
             /\ StackUnchanged
             /\ Browsing' /\ calls' = <<>>
             /\ submenu_count' = submenu_count
      /\ (Browsing /\ fed' = <<SP>>) =>
             /\ tinysh_menu_hook(Fresh, SP).ret = 0
             /\ menu_state' = menu_state
             /\ Browsing' /\ calls' = <<>>
             /\ submenu_count' = submenu_count ]_vars

\* '1' was pressed in the main menu with the first item selected: the
\* "Tools" submenu reference is selected and has not been entered
C20_Witness ==
  /\ Browsing
  /\ fed = <<"1">>
  /\ menu_state.current_menu = main_menu
  /\ menu_state.menu_stack_idx = 0
  /\ menu_state.current_index = 1
  /\ "SUBMENU" \in Selected.type

-----------------------------------------------------------------------------
(* The back key and the escape key *)

\* one level is popped, or menu mode is left when the stack is at the root
BackStep ==
  IF menu_state.menu_stack_idx = 0
  THEN in_menu_mode' = 0
  ELSE /\ in_menu_mode' # 0
       /\ menu_state'.menu_stack_idx = menu_state.menu_stack_idx - 1
       /\ menu_state'.current_menu = menu_state.menu_stack[menu_state.menu_stack_idx]

\* the pass is fed a character that ends an escape sequence which is not an
\* arrow sequence: a character other than '[' right after ESC, or a character
\* other than A, B, C, D after ESC '['
EscapeFallback ==
  /\ Browsing /\ in_escape_seq # 0
  /\ \/ escape_char_count = 0 /\ fed' # <<"[">>
     \/ escape_char_count = 1 /\ fed' \notin {<<"A">>, <<"B">>, <<"C">>, <<"D">>}
  /\ fed' # <<MENU_KEY_BACK>>

\* C21: while browsing, the back key 'q' and an ESC that is not followed by
\* an arrow sequence each pop exactly one level of the navigation stack, and
\* leave menu mode when the stack is at the root.
C21_BackAndEscape ==
  [][ ((Browsing /\ fed' = <<MENU_KEY_BACK>>) \/ EscapeFallback) => BackStep ]_vars

\* the half of C21 that is about the back key alone
C21_BackKey ==
  [][ (Browsing /\ fed' = <<MENU_KEY_BACK>>) => BackStep ]_vars

\* ESC and then '1' were pressed one level down: the second item is selected
\* and the level is the same
C21_EscapeIgnored ==
  /\ Browsing
  /\ fed = <<"1">>
  /\ in_escape_seq # 0 /\ escape_char_count = 1
  /\ menu_state.menu_stack_idx = 1
  /\ menu_state.current_index = 1

-----------------------------------------------------------------------------
(* The acknowledgement *)

\* the navigator waits for the key that acknowledges a result
AwaitingAck ==
  in_menu_mode # 0 /\ collecting_arguments = 0 /\ waiting_for_keypress # 0

\* what the acknowledged state differs in: the flag, and the scroll offset the
\* redraw may align
Acknowledged(S) ==
  [S EXCEPT !.waiting_for_keypress = 0, !.menu_state.scroll_offset = 0]

-----------------------------------------------------------------------------
(* The argument prompt *)

RECURSIVE Rep(_, _)
Rep(c, n) == IF n = 0 THEN <<>> ELSE <<c>> \o Rep(c, n - 1)

\* argument lines typed at the prompt: blanks before, between and after the
\* words, more words than argv holds, the password, a line longer than the
\* argument buffer
ArgTexts ==
  { <<"a", SP, SP, "b", SP, "c">>, <<SP, "a", SP, "b", SP>>, <<"p", "w">>,
    Rep("a", BUFFER_SIZE) }

\* the keys of the walk: Enter, backspace, the shortcuts of "Commands", "Set
\* Parameter" and "auth", the letters of the argument lines and of "m"
ArgKeys == {CR, BS, "1", "2", "3", "m", "a", "b", "c", "p", "w", SP}

InitArgs == InitProgram(1, 1) /\ NoMatchRun

KeyArgs(c) == MenuPass(c, ArgTexts, MenuStrays) /\ fed' = <<c>>

NextArgs ==
  \/ \E c \in ArgKeys : KeyShell(c)
  \/ \E c \in ArgKeys : KeyArgs(c)

SpecArgs == InitArgs /\ [][NextArgs]_vars

\* the navigator collects an argument line
Collecting == in_menu_mode # 0 /\ collecting_arguments # 0

\* the program apart from the argument buffer
ButArgBuffer(S) == [S EXCEPT !.arg_buffer = <<>>, !.arg_buffer_index = 0]

\* the argument buffer after the character c
ArgTyped(c) ==
  IF c = BS THEN Take(arg_buffer, IF arg_buffer_index > 0 THEN arg_buffer_index - 1 ELSE 0)
  ELSE IF Printable(c) /\ Len(arg_buffer) < BUFFER_SIZE - 1 THEN Append(arg_buffer, c)
  ELSE arg_buffer

\* C23: while an argument line is collected every character is consumed by
\* the navigator: a printable one is appended while room remains, backspace
\* removes one, no other has an effect, and nothing is executed; on submit
\* the pending function is invoked exactly once, with argv[0] the pending
\* title followed by the words of the buffer, the argv that exec_command
\* builds from the same text, and the acknowledgement is awaited.
C23_ArgumentPrompt ==
  /\ [](Collecting =>
          /\ arg_buffer_index = Len(arg_buffer)
          /\ \A c \in Chars \ {CR} :
               /\ tinysh_menu_hook(Fresh, c).ret = 1
               /\ tinysh_menu_hook(Fresh, c).S.calls = <<>>
               /\ tinysh_menu_hook(Fresh, c).S.arg_buffer = ArgTyped(c)
               /\ ButArgBuffer(tinysh_menu_hook(Fresh, c).S) = ButArgBuffer(Fresh))
  /\ [][ (Collecting /\ fed' = <<CR>>) =>
           /\ Len(calls') = 1
           /\ calls'[1].fn = pending_function_arg
           /\ calls'[1].argv = exec_argv(arg_buffer, <<arg_title>>)
           /\ Len(calls'[1].argv) <= MAX_ARGS
           /\ AwaitingAck' ]_vars

\* the line "a  b c" was submitted at the prompt of "Set Parameter": the
\* function got the title and the first MAX_ARGS - 1 words
C23_Witness ==
  /\ AwaitingAck
  /\ fed = <<CR>>
  /\ arg_buffer = <<"a", SP, SP, "b", SP, "c">>
  /\ Len(calls) = 1
  /\ calls[1].fn = "set_parameter_with_args"
  /\ calls[1].argv = <<"Set Parameter", <<"a">>, <<"b">>>>

-----------------------------------------------------------------------------
(* Quitting *)

\* lines typed at the prompt: the password, a wrong one, quit, reboot
QuitLines ==
  { <<"a", SP, "p", "w">>, <<"a", SP, "x">>, <<"q">>, <<"q", "u", "i", "t">>,
    <<"r", "e", "b", "o", "o", "t">> }

InitQuit ==
  /\ \E pm \in {0, 1} : InitProgram(pm, 1)
  /\ NoMatchRun

\* one pass of the main loop, which ends when the shell is no longer active:
\* while ((c = getchar()) != EOF && is_tinyshell_active())
KeyQuit(c) ==
  /\ tinyshell_active # 0
  /\ ShellPass(c, QuitLines)
  /\ fed' = <<c>>

NextQuit == \E c \in Chars : KeyQuit(c)

SpecQuit == InitQuit /\ [][NextQuit]_vars

\* the pass ran the quit command
QuitCalled == \E i \in DOMAIN calls : calls[i].fn = "quit_fnt"

\* C24: after an explicit quit, by the quit command or by the quit control
\* character of the line editor (CTRL-D), the active flag is 0 and the
\* privilege level is None.
C24_QuitRevokes ==
  [][ (fed' = <<CTRLD>> \/ QuitCalled') =>
        /\ tinyshell_active' = 0
        /\ tinysh_auth_level' = TINYSH_AUTH_NONE ]_vars

\* the half of C24 that is about the quit command alone
C24_QuitCommand ==
  [][ QuitCalled' =>
        /\ tinyshell_active' = 0
        /\ tinysh_auth_level' = TINYSH_AUTH_NONE ]_vars

\* CTRL-D was pressed by an administrator: the shell is inactive and the
\* level is still Admin
C24_AdminAfterQuit ==
  /\ fed = <<CTRLD>>
  /\ tinyshell_active = 0
  /\ tinysh_auth_level = TINYSH_AUTH_ADMIN

\* the quit command was run by an administrator
C24_QuitByAdmin ==
  /\ QuitCalled
  /\ fed = <<CR>>
  /\ tinyshell_active = 0
  /\ tinysh_auth_level = TINYSH_AUTH_NONE
  /\ \E i \in DOMAIN calls : calls[i].fn = "quit_fnt" /\ calls[i].level = TINYSH_AUTH_ADMIN

-----------------------------------------------------------------------------
(* Back to the top level *)

\* lines typed at the prompt: the password, a context, a nested context, and
\* a line that names a command of the context and none of the root chain
TopLines ==
  { <<"a", SP, "p", "w">>, <<"n">>, <<"w">>, <<"l", "i">> }

InitTop ==
  /\ InitProgram(1, 3)
  /\ NoMatchRun

KeyTop(c) ==
  /\ ShellPass(c, TopLines)
  /\ fed' = <<c>>

\* the host calls tinysh_reset_context between two characters
CallReset ==
  /\ in_menu_mode = 0
  /\ Becomes(tinysh_reset_context(Fresh))
  /\ fed' = <<"tinysh_reset_context">>
  /\ UNCHANGED <<cfgVars, matchVars>>

NextTop ==
  \/ \E c \in Chars \ {CTRLD} : KeyTop(c)
  \/ CallReset

SpecTop == InitTop /\ [][NextTop]_vars

\* the pass was the return-to-top character or a call of tinysh_reset_context
Cleared == fed' \in {<<TOPCHAR>>, <<"tinysh_reset_context">>}

\* the ancestor of c in the root chain
RECURSIVE RootOf(_)
RootOf(c) == IF root_cmd[c].parent = 0 THEN c ELSE RootOf(root_cmd[c].parent)

\* the submitted line was matched against the root chain: what it resolved to
\* is, or lies below, a root command its first token abbreviates, and it is
\* unmatched at the first level only if no root command starts with the token
MatchedAtRoot ==
  /\ dispatch'.kind \in {"exec", "refused", "context"} =>
       RootOf(dispatch'.cmd) \in Candidates(0, FirstToken(dispatch'.line))
  /\ (dispatch'.kind = UNMATCH /\ dispatch'.rest = dispatch'.line) =>
       Candidates(0, FirstToken(dispatch'.line)) = {}
  /\ Candidates(0, FirstToken(dispatch'.line)) = {} =>
       dispatch'.kind = UNMATCH

\* C25: the return-to-top character and tinysh_reset_context clear the
\* dispatch context and the breadcrumb and leave the live line, the history
\* ring and the privilege level as they were; the line submitted next is
\* matched against the root chain.
C25_TopClears ==
  [][ /\ Cleared =>
           /\ cur_cmd_ctx' = 0
           /\ cur_context' = 0
           /\ context_buffer' = <<>>
           /\ input_buffers' = input_buffers
           /\ cur_buf_index' = cur_buf_index
           /\ cur_index' = cur_index
           /\ tinysh_auth_level' = tinysh_auth_level
           /\ calls' = <<>>
      /\ (cur_cmd_ctx = 0 /\ fed' = <<CR>> /\ dispatch'.kind # "none") =>
           MatchedAtRoot ]_vars

\* the context net was cleared by the return-to-top character with a line
\* half typed, by an administrator
C25_Witness ==
  /\ fed = <<TOPCHAR>>
  /\ cur_cmd_ctx = 0 /\ context_buffer = <<>>
  /\ tinysh_auth_level = TINYSH_AUTH_ADMIN
  /\ input_buffers[cur_buf_index] = <<"l">>
  /\ input_buffers[(cur_buf_index + HISTORY_DEPTH - 1) % HISTORY_DEPTH] = <<"n">>

\* the same by tinysh_reset_context
C25_WitnessReset ==
  /\ fed = <<"tinysh_reset_context">>
  /\ cur_cmd_ctx = 0 /\ context_buffer = <<>>
  /\ input_buffers[cur_buf_index] = <<"l">>
  /\ input_buffers[(cur_buf_index + HISTORY_DEPTH - 1) % HISTORY_DEPTH] = <<"n">>

\* after the context net was cleared, the line "li" names no root command
C25_WitnessNextLine ==
  /\ fed = <<CR>>
  /\ dispatch.kind = UNMATCH /\ dispatch.line = <<"l", "i">>
  /\ input_buffers[(cur_buf_index + HISTORY_DEPTH - 2) % HISTORY_DEPTH] = <<"n">>

-----------------------------------------------------------------------------
(* The ring cursor *)

\* lines typed at the prompt, with and without leading blanks, and blank lines
RingLines == { <<"h">>, <<SP, "h">>, <<"x", SP>>, <<SP, SP>> }

InitRing ==
  /\ \E depth \in {1, 2, 3} : InitProgram(1, depth)
  /\ NoMatchRun

KeyRing(c) ==
  /\ ShellPass(c, RingLines)
  /\ fed' = <<c>>

NextRing == \E c \in Chars \ {CTRLD, TOPCHAR} : KeyRing(c)

SpecRing == InitRing /\ [][NextRing]_vars

\* the live line holds a character that is not a blank
NotBlank == \E i \in DOMAIN input_buffers[cur_buf_index] : input_buffers[cur_buf_index][i] # SP

RingIndexInRange == cur_buf_index \in 0..(HISTORY_DEPTH - 1)

\* C26 (as stated): every submission advances the ring cursor to
\* (cursor + 1) mod N and clears the new current slot; the ring index is
\* always in [0, N).
C26_EachSubmission ==
  /\ []RingIndexInRange
  /\ [][ fed' = <<CR>> =>
           /\ cur_buf_index' = (cur_buf_index + 1) % HISTORY_DEPTH
           /\ input_buffers'[cur_buf_index'] = <<>> ]_vars

\* C26 (amended): the submission of a line that holds a character other than
\* a blank advances the ring cursor to (cursor + 1) mod N, clears the new
\* current slot and leaves the other slots alone; the submission of an empty
\* or all-blank line leaves the cursor and every slot as they are; the ring
\* index is always in [0, N).
C26_RingAdvances ==
  /\ []RingIndexInRange
  /\ [][ fed' = <<CR>> =>
           IF NotBlank
           THEN /\ cur_buf_index' = (cur_buf_index + 1) % HISTORY_DEPTH
                /\ input_buffers' = [input_buffers EXCEPT ![cur_buf_index'] = <<>>]
                /\ cur_index' = 0
           ELSE /\ cur_buf_index' = cur_buf_index
                /\ input_buffers' = input_buffers ]_vars

\* the third submission wrapped the cursor of a ring of three slots and
\* cleared the slot of the first line
C26_Witness ==
  /\ fed = <<CR>>
  /\ HISTORY_DEPTH = 3
  /\ cur_buf_index = 0
  /\ input_buffers = [i \in 0..2 |-> <<<<>>, <<SP, "h">>, <<"x", SP>>>>[i + 1]]

\* Enter on a line of blanks: nothing dispatched, the cursor where it was
C26_BlankSubmitted ==
  /\ fed = <<CR>>
  /\ HISTORY_DEPTH = 2
  /\ dispatch.kind = "none"
  /\ cur_buf_index = 1
  /\ input_buffers[1] = <<SP, SP>>

-----------------------------------------------------------------------------
(* History keys *)

\* number of lines submitted in the session
RECURSIVE Submitted(_)
Submitted(s) ==
  IF s = <<>> THEN 0 ELSE (IF Head(s) = CR THEN 1 ELSE 0) + Submitted(Tail(s))

\* the slot of the line being typed: every line of a session is submitted
\* from it, and a submission moves it by one
WritePos == Submitted(fed) % HISTORY_DEPTH

\* the slot of the oldest line a full ring stores
OldestPos == (WritePos + 1) % HISTORY_DEPTH

HistoryPrevious == fed' = Append(fed, CTRLP)
HistoryNext == fed' = Append(fed, CTRLN)

\* a history key moved the cursor to a slot that holds no line
EmptySelected ==
  /\ cur_buf_index' # cur_buf_index
  /\ input_buffers'[cur_buf_index'] = <<>>

\* C27: history-previous and history-next never make an empty slot current,
\* and history-previous clamps at the oldest stored line: it moves to older
\* submitted lines only, never from the oldest line around the ring to the
\* line being typed or to a newer line.
C27_HistoryClamps ==
  [][ /\ (HistoryPrevious \/ HistoryNext) => ~EmptySelected
      /\ HistoryPrevious =>
           /\ cur_buf_index = OldestPos => cur_buf_index' = cur_buf_index
           /\ cur_buf_index # WritePos => cur_buf_index' # WritePos ]_vars

\* the half that holds: no history key makes an empty slot current
C27_NeverEmpty ==
  [][ (HistoryPrevious \/ HistoryNext) => ~EmptySelected ]_vars

\* "ab" and "cd" submitted, "x" typed, history-previous pressed three times:
\* the cursor is back on the line being typed
C27_WrappedToTyped ==
  /\ HISTORY_DEPTH = 3
  /\ fed = <<"a", "b", CR, "c", "d", CR, "x", CTRLP, CTRLP, CTRLP>>
  /\ cur_buf_index = 2
  /\ LiveLine = <<"x">>

\* a fourth press shows the newest line again
C27_WrappedToNewer ==
  /\ HISTORY_DEPTH = 3
  /\ fed = <<"a", "b", CR, "c", "d", CR, "x", CTRLP, CTRLP, CTRLP, CTRLP>>
  /\ LiveLine = <<"c", "d">>

-----------------------------------------------------------------------------
(* A menu item that types a command line *)

\* tiny_port.c: echo_cmd, registered after the commands of Cmd
echo_cmd == Len(Cmd) + 1
EchoCmds ==
  Append(Cmd, [name |-> <<"e","c","h","o">>, parent |-> 0, usage |-> "[args...]",
               function |-> "cmd_echo", arg |-> NullPtr])

\* command lines of the item: plain, with leading blanks, the configured
\* "echo Hello from menu!" shortened to the size of the line buffer, a line
\* with the help trigger, one with the return-to-top character, and a line
\* longer than the line buffer
ItemTexts ==
  { <<"e", SP, "H">>, <<SP, SP, "e", SP, "H">>,
    <<"e", "c", "h", "o", SP, "H", "i", "!">>, <<"e", SP, "H", "?">>,
    <<"e", SP, TOPCHAR, "x">>, <<"e", SP>> \o Rep("a", BUFFER_SIZE - 1) }

\* the tools menu with the command line `text` on its first item
TextMenus(text) == [StaticMenus EXCEPT ![tools_menu].items[1].command = text]

InitText ==
  /\ \E text \in ItemTexts, depth \in {1, 2} :
        InitProgramMenus(1, depth, tools_menu, EchoCmds, TextMenus(text))
  /\ NoMatchRun

TextKeys == {CR, "m", "1", "q", "x"}

KeyText(c) == MenuPass(c, MenuArgs, MenuStrays) /\ fed' = <<c>>

NextText ==
  \/ \E c \in TextKeys : KeyShell(c)
  \/ \E c \in TextKeys : KeyText(c)

SpecText == InitText /\ [][NextText]_vars

\* the pass executes an item that types a command line
CommandItemRun ==
  /\ Browsing /\ in_escape_seq = 0
  /\ fed' = <<CR>>
  /\ menu_state.current_index < ItemCount
  /\ "COMMAND" \in current_item(St).type
  /\ current_item(St).command # <<>>

\* the characters the line editor does not append to the line
EditorKeys == {CR, TOPCHAR, BS, CTRLP, CTRLN, CTRLD, TAB, "?", "!"}

\* C28: executing an item that holds a command line dispatches one line, the
\* item's text without its leading blanks, whatever characters the text
\* holds, and leaves menu mode active, awaiting the acknowledgement.
C28_ItemTextDispatched ==
  [][ CommandItemRun =>
        /\ dispatch'.line = SkipSpaces(current_item(St).command)
        /\ AwaitingAck' ]_vars

\* the same for the texts of at most BUFFER_SIZE characters none of which the
\* line editor interprets
C28_PlainTextDispatched ==
  [][ ( /\ CommandItemRun
        /\ Len(current_item(St).command) <= BUFFER_SIZE
        /\ \A i \in DOMAIN current_item(St).command :
              current_item(St).command[i] \notin EditorKeys ) =>
        /\ dispatch'.line = SkipSpaces(current_item(St).command)
        /\ AwaitingAck' ]_vars

\* the item "echo Hi!" ran: echo was called with "Hi"
C28_BangLost ==
  /\ fed = <<CR>>
  /\ AwaitingAck
  /\ menus[tools_menu].items[1].command = <<"e", "c", "h", "o", SP, "H", "i", "!">>
  /\ dispatch.line = <<"e", "c", "h", "o", SP, "H", "i">>
  /\ \E i \in DOMAIN calls :
        calls[i].fn = "cmd_echo" /\ calls[i].argv = <<<<"e","c","h","o">>, <<"H", "i">>>>

\* the item "  e H" ran: echo was called with "H"
C28_PlainRan ==
  /\ fed = <<CR>>
  /\ AwaitingAck
  /\ menus[tools_menu].items[1].command = <<SP, SP, "e", SP, "H">>
  /\ dispatch.line = <<"e", SP, "H">>
  /\ \E i \in DOMAIN calls :
        calls[i].fn = "cmd_echo" /\ calls[i].argv = <<<<"e","c","h","o">>, <<"H">>>>

-----------------------------------------------------------------------------
(* Submenus of the command tree *)

\* the pass activates an item that refers to a command with children, with
\* room left on the navigation stack
CommandSubmenuRun ==
  /\ Browsing /\ in_escape_seq = 0
  /\ fed' = <<CR>>
  /\ menu_state.current_index < ItemCount
  /\ {"CMD_REF", "SUBMENU"} \subseteq current_item(St).type
  /\ "ADMIN" \in current_item(St).type => tinysh_auth_level >= TINYSH_AUTH_ADMIN
  /\ current_item(St).cmd # 0
  /\ menu_state.menu_stack_idx < MENU_MAX_DEPTH - 1

\* the menu m lists the children of cmd in sibling order, each with the admin
\* flag of the child, and then a back item
ListsChildren(m, cmd) ==
  LET kids == Chain(cmd) IN
  /\ Len(m.items) = Len(kids) + 1
  /\ \A i \in DOMAIN kids :
        /\ m.items[i].cmd = kids[i]
        /\ m.items[i].title = root_cmd[kids[i]].name
        /\ "CMD_REF" \in m.items[i].type
        /\ "ADMIN" \in m.items[i].type <=> tinysh_is_admin_command(kids[i])
  /\ "BACK" \in m.items[Len(kids) + 1].type

\* the current menu after the pass is a synthesized one that lists the
\* children of the activated command, entered at its first item
SubmenuEntered ==
  /\ menu_state'.current_menu > cmd_menu
  /\ ListsChildren(cmd_submenus'[menu_state'.current_menu - cmd_menu],
                   current_item(St).cmd)
  /\ menu_state'.current_index = 0
  /\ menu_state'.menu_stack_idx = menu_state.menu_stack_idx + 1

\* C29: activating a command-tree reference with children, with spare depth
\* on the stack, always switches to a submenu that lists the children in
\* sibling order (each with its admin flag) and a back item, however many
\* such activations happened before.
C29_SubmenuRegenerated ==
  [][ CommandSubmenuRun => SubmenuEntered ]_vars

\* the same while a slot of the pool is free
C29_WhilePoolLasts ==
  [][ (CommandSubmenuRun /\ submenu_count < MAX_CMD_SUBMENUS) => SubmenuEntered ]_vars

\* a submenu of net was entered
C29_Entered ==
  /\ fed = <<CR>>
  /\ Browsing
  /\ menu_state.current_menu > cmd_menu
  /\ ListsChildren(cmd_submenus[menu_state.current_menu - cmd_menu], net_cmd)

\* the pool is used up: Enter on the item of net left the command menu current
C29_PoolExhausted ==
  /\ fed = <<CR>>
  /\ Browsing
  /\ submenu_count = MAX_CMD_SUBMENUS
  /\ menu_state.current_menu = cmd_menu
  /\ menu_state.current_index < ItemCount
  /\ {"CMD_REF", "SUBMENU"} \subseteq current_item(St).type
  /\ current_item(St).cmd = net_cmd

-----------------------------------------------------------------------------
(* The viewport *)

\* the number of items tinysh_menu_display shows
DisplayCount ==
  IF ItemCount > MENU_DISPLAY_ITEMS THEN MENU_DISPLAY_ITEMS ELSE ItemCount

\* the selection is one of the items shown, and the viewport ends within the
\* menu
InViewport ==
  /\ menu_state.scroll_offset <= menu_state.current_index
  /\ menu_state.current_index < menu_state.scroll_offset + DisplayCount
  /\ menu_state.scroll_offset + DisplayCount <= ItemCount

\* the pass leaves the navigator in the menu it was in
SameMenu ==
  /\ in_menu_mode # 0 /\ in_menu_mode' # 0
  /\ menu_state'.current_menu = menu_state.current_menu
  /\ menu_state'.menu_stack_idx = menu_state.menu_stack_idx
  /\ cmd_submenus' = cmd_submenus

\* the offset stays when the new selection is visible and otherwise moves
\* until the selection is the last or the first item shown
MinimalClamp ==
  menu_state'.scroll_offset =
    IF menu_state'.current_index >= menu_state.scroll_offset + DisplayCount
    THEN menu_state'.current_index - DisplayCount + 1
    ELSE IF menu_state'.current_index < menu_state.scroll_offset
         THEN menu_state'.current_index
         ELSE menu_state.scroll_offset

\* C30: in menu mode the selection is inside the viewport and the viewport
\* inside the menu; while the same menu stays current the offset is unchanged
\* when the selection is visible and moves by exactly the amount needed
\* otherwise.
C30_SelectionVisible ==
  /\ [](in_menu_mode # 0 => InViewport)
  /\ [][ SameMenu => MinimalClamp ]_vars

\* the last item of the main menu was selected: the viewport moved down by two
C30_Witness ==
  /\ Browsing
  /\ menu_state.current_menu = main_menu
  /\ menu_state.current_index = 4
  /\ menu_state.scroll_offset = 2

-----------------------------------------------------------------------------
(* Completion and help at the prompt *)

\* the command tree of the unit tests (part_000: test and its sub-commands,
\* temptest) with the built-in help and auth, and the parent / child pair of
\* the programming guide (part_002)
EditCmds == <<
  [name |-> <<"h","e","l","p">>, parent |-> 0, usage |-> _NOARG_,
   function |-> "help_fnt", arg |-> NullPtr],
  [name |-> <<"a","u","t","h">>, parent |-> 0, usage |-> "password",
   function |-> "auth_cmd_handler", arg |-> NullPtr],
  [name |-> <<"t","e","s","t">>, parent |-> 0,
   usage |-> "[run|parser|history|commands|tokenize|conversion|auth]",
   function |-> "test_cmd_handler", arg |-> NullPtr],
  [name |-> <<"r","u","n">>, parent |-> 3, usage |-> "[verbose|quiet]",
   function |-> "test_run_handler", arg |-> NullPtr],
  [name |-> <<"c","o","m","m","a","n","d","s">>, parent |-> 3, usage |-> NULL,
   function |-> "test_commands_handler", arg |-> NullPtr],
  [name |-> <<"c","o","n","v","e","r","s","i","o","n">>, parent |-> 3,
   usage |-> NULL, function |-> "test_conversion_handler", arg |-> NullPtr],
  [name |-> <<"a","u","t","h">>, parent |-> 3, usage |-> NULL,
   function |-> "test_auth_handler", arg |-> NullPtr],
  [name |-> <<"t","e","m","p","t","e","s","t">>, parent |-> 0, usage |-> NULL,
   function |-> NULL, arg |-> REBOOT_ARG],
  [name |-> <<"p","a","r","e","n","t">>, parent |-> 0, usage |-> NULL,
   function |-> "parent_cmd_handler", arg |-> NullPtr],
  [name |-> <<"c","h","i","l","d">>, parent |-> 9, usage |-> NULL,
   function |-> "child_cmd_handler", arg |-> NullPtr] >>

\* a tree in which one name starts another: list, load and l, registered in
\* this order
PrefixCmds == <<
  [name |-> <<"l","i","s","t">>, parent |-> 0, usage |-> NULL,
   function |-> "list_handler", arg |-> NullPtr],
  [name |-> <<"l","o","a","d">>, parent |-> 0, usage |-> NULL,
   function |-> "load_handler", arg |-> NullPtr],
  [name |-> <<"l">>, parent |-> 0, usage |-> NULL,
   function |-> "l_handler", arg |-> NullPtr] >>

\* lines typed at the prompt: tokens with one candidate, with several, with
\* none, typed in part and in full, after a blank, at the top level and below
\* a command
EditLines ==
  { <<"t","e","s","t",SP,"c","o","m">>, <<"h","e">>, <<"r","u","n",SP>>,
    <<"c">>, <<"x">>, <<"p","a","r","e","n","t">>, <<SP,"p">>, <<SP,"c">>,
    <<"l","o">> }

EditKeys == {CR, BS, "?", "!", TAB}

InitEdit ==
  /\ \E cmds \in {EditCmds, PrefixCmds} : InitProgramCmds(1, 1, main_menu, cmds)
  /\ NoMatchRun

\* one pass of the host loop at the prompt. The byte in front of the line
\* buffer is not the program's to read: it holds whatever the storage before
\* input_buffers holds
KeyEdit(c) ==
  /\ in_menu_mode = 0
  /\ c \in EditKeys \/ OnScript(c, EditLines)
  /\ \E b \in {NUL, SP} :
        Becomes(host_char([Fresh EXCEPT !.before_line = b], c).S)
  /\ fed' = <<c>>
  /\ UNCHANGED <<cfgVars, matchVars>>

NextEdit == \E c \in Chars \cup EditKeys : KeyEdit(c)

SpecEdit == InitEdit /\ [][NextEdit]_vars

\* the sibling chain the live line is matched against: the sub-commands of the
\* dispatch context, or the top-level commands
StartChain == IF cur_cmd_ctx # 0 THEN Chain(cur_cmd_ctx) ELSE Chain(0)

\* the level the last token of str belongs to: every token that is followed by
\* further text and names a command leads to the sub-commands of that command
RECURSIVE LevelOf(_, _)
LevelOf(chain, str) ==
  LET r == parse_command(ChainNames(chain), str, PARTIAL_MATCH) IN
  IF r.ret = MATCH /\ r.str # <<>>
  THEN LevelOf(Chain(chain[r.cmd]), r.str)
  ELSE [chain |-> chain, str |-> SkipSpaces(str)]

FinalLevel == LevelOf(StartChain, LiveLine)
\* the live line ends in a token, the only text left at its level
AtFinalToken ==
  /\ LiveLine # <<>> /\ LiveLine[Len(LiveLine)] # SP
  /\ FinalLevel.str # <<>> /\ SkipToken(FinalLevel.str) = <<>>
FinalToken == FinalLevel.str
\* the commands of the level whose names start with the final token
FinalCandidates ==
  { c \in {FinalLevel.chain[k] : k \in 1..Len(FinalLevel.chain)} :
      IsPrefix(FinalToken, root_cmd[c].name) }
CompletionKey == fed' \in {<<"!">>, <<TAB>>}
LeafWithUsage(c) == ~HasChild(c) /\ root_cmd[c].usage # NULL
\* the final token completed to the name of c
Completed(c) == LiveLine \o Drop(root_cmd[c].name, Len(FinalToken))

\* C31: when exactly one candidate matches the final token, completion appends
\* the candidate's unmatched suffix to the live line, and a space unless the
\* candidate is a leaf with usage text; the text typed before is unchanged.
C31_UniqueSuffix ==
  [][(CompletionKey /\ AtFinalToken /\ Cardinality(FinalCandidates) = 1) =>
       \A c \in FinalCandidates :
         LiveLine' = Completed(c) \o
                       (IF LeafWithUsage(c) THEN <<>> ELSE <<SP>>)]_vars

\* on a line that does not start with a blank, the one candidate's suffix and a
\* space are appended as far as the line buffer has room, for a leaf with
\* usage text too; a candidate typed in full that has sub-commands may be
\* followed by the completion of its sub-commands
C31_UniqueCompletes ==
  [][(CompletionKey /\ AtFinalToken /\ Cardinality(FinalCandidates) = 1
        /\ LiveLine[1] # SP) =>
       \A c \in FinalCandidates :
         LET line == Take(Completed(c) \o <<SP>>, BUFFER_SIZE) IN
         /\ IsPrefix(line, LiveLine')
         /\ cur_buf_index' = cur_buf_index
         /\ cur_index' = Len(LiveLine')
         /\ (root_cmd[c].name # FinalToken \/ ~HasChild(c)) => LiveLine' = line]_vars

\* " p" completed: the whole name is typed after the token
C31_NameDoubled ==
  /\ fed \in {<<"!">>, <<TAB>>}
  /\ LiveLine = <<SP, "p", "p", "a", "r", "e", "n", "t">>

\* "he" completed to "help ": help is a leaf with usage text
C31_SpaceAfterLeaf ==
  /\ fed \in {<<"!">>, <<TAB>>}
  /\ LiveLine = <<"h", "e", "l", "p", SP>>

\* "parent" typed in full: the space, then the only sub-command as far as the
\* buffer has room
C31_Descends ==
  /\ fed \in {<<"!">>, <<TAB>>}
  /\ IsPrefix(<<"p", "a", "r", "e", "n", "t", SP, "c">>, LiveLine)

\* the longest sequence every name of a non-empty set starts with
CommonPrefix(names) ==
  LET n0 == CHOOSE n \in names : TRUE
      lens == { k \in 0..Len(n0) : \A m \in names : IsPrefix(Take(n0, k), m) }
  IN Take(n0, CHOOSE k \in lens : \A j \in lens : j <= k)

CandidateNames == { root_cmd[c].name : c \in FinalCandidates }

\* C32: when several candidates match the final token, completion extends the
\* live line by exactly the characters that take the token to the longest
\* common prefix of the candidates' names, without a trailing space; a token
\* that equals that prefix leaves the live line unchanged.
C32_CommonPrefix ==
  [][(CompletionKey /\ AtFinalToken /\ Cardinality(FinalCandidates) > 1) =>
       LiveLine' = LiveLine \o Drop(CommonPrefix(CandidateNames), Len(FinalToken))]_vars

\* the same on lines that do not start with a blank, at levels where no
\* candidate's name is the token itself
C32_CommonPrefixPlain ==
  [][(CompletionKey /\ AtFinalToken /\ Cardinality(FinalCandidates) > 1
        /\ LiveLine[1] # SP /\ FinalToken \notin CandidateNames) =>
       /\ LiveLine' = LiveLine \o Drop(CommonPrefix(CandidateNames), Len(FinalToken))
       /\ cur_index' = Len(LiveLine')
       /\ cur_buf_index' = cur_buf_index]_vars

\* "c" below test, completed to "co" (commands, conversion)
C32_Extended ==
  /\ fed \in {<<"!">>, <<TAB>>}
  /\ cur_cmd_ctx # 0
  /\ LiveLine = <<"c", "o">>

\* "l" with the commands list, load and l: the first candidate's name is typed
C32_FirstCandidateTyped ==
  /\ fed \in {<<"!">>, <<TAB>>}
  /\ root_cmd = PrefixCmds
  /\ IsPrefix(<<"l", "i", "s", "t">>, LiveLine)

-----------------------------------------------------------------------------
(* The line editor with every key: typing, submission, history, help and    *)
(* completion                                                               *)

LineLines == { <<SP, "h">>, <<"t", "e", "s">>, <<"x">> }
LineKeys == {CR, BS, CTRLP, CTRLN, "?", "!", TAB}

InitLine ==
  /\ \E depth \in {1, 2} : InitProgramCmds(1, depth, main_menu, EditCmds)
  /\ NoMatchRun

KeyLine(c) ==
  /\ in_menu_mode = 0
  /\ c \in LineKeys \/ OnScript(c, LineLines)
  /\ c \in {CTRLP, CTRLN} => HISTORY_DEPTH > 1
  /\ \E b \in {NUL, SP} :
        Becomes(host_char([Fresh EXCEPT !.before_line = b], c).S)
  /\ fed' = <<c>>
  /\ UNCHANGED <<cfgVars, matchVars>>

NextLine == \E c \in Chars \cup LineKeys : KeyLine(c)

SpecLine == InitLine /\ [][NextLine]_vars

HelpKey == fed' = <<"?">>

\* C33: the help trigger does not consume the line: the live line and its
\* cursor, the history ring and its cursor, the dispatch context and the
\* privilege level are after it what they were before, and no command handler
\* has been invoked.
C33_HelpKeepsLine ==
  [][HelpKey =>
       /\ UNCHANGED <<input_buffers, cur_buf_index, cur_index>>
       /\ UNCHANGED <<cur_cmd_ctx, context_buffer, cur_context, tinysh_auth_level>>
       /\ calls' = <<>>]_vars

\* the same without the cursor, which the help trigger sets to the length of
\* the live line
C33_HelpKeepsText ==
  [][HelpKey =>
       /\ UNCHANGED <<input_buffers, cur_buf_index>>
       /\ cur_index' = Len(LiveLine)
       /\ UNCHANGED <<cur_cmd_ctx, context_buffer, cur_context, tinysh_auth_level>>
       /\ calls' = <<>>]_vars

\* help asked for after a line of blanks was submitted: the cursor has moved
\* from 0 to the end of the blanks
C33_CursorMoved ==
  /\ fed = <<"?">>
  /\ LiveLine = <<SP>>
  /\ cur_index = 1

\* help asked for below a command, with text on the line and a line in the ring
C33_HelpInContext ==
  /\ fed = <<"?">>
  /\ cur_cmd_ctx # 0
  /\ LiveLine = <<"x">>
  /\ HISTORY_DEPTH > 1

-----------------------------------------------------------------------------
(* The admin flag in the argument pointer *)

\* argument values a host may declare: null, small integers, the example's
\* 0x12345678, addresses with bit 31 clear and set
FlagArgs == { Ptr(b3, low) : b3 \in {0, 1, 18, 127, 128, 255},
                             low \in {0, 1, 3430008, 16777215} }

\* auth and one more command, registered last, declared with TINYSH_ADMIN_CMD
\* or as a plain initializer with the argument arg
flag_cmd == Len(root_cmd)
FlagCmds(arg, macro) ==
  << Cmd[auth_cmd],
     [name |-> <<"r","e","b","o","o","t">>, parent |-> 0, usage |-> _NOARG_,
      function |-> "reboot_cmd_handler",
      arg |-> IF macro THEN TINYSH_ADMIN_CMD(arg) ELSE arg] >>

FlagLines == { <<"r">>, <<"a", SP, "p", "w">> }

InitFlag ==
  /\ \E arg \in FlagArgs, macro \in BOOLEAN :
        /\ InitProgramCmds(1, 1, main_menu, FlagCmds(arg, macro))
        /\ lib_in = [op |-> "declare", arg |-> arg, macro |-> macro]
  /\ m_sib = <<>> /\ m_in = <<>> /\ m_out = NoMatchCall
  /\ lib_out = NoLibCall

KeyFlag(c) == ShellPass(c, FlagLines) /\ fed' = <<c>>

NextFlag == \E c \in {"r", "a", SP, "p", "w", CR, BS} : KeyFlag(c)

SpecFlag == InitFlag /\ [][NextFlag]_vars

\* the handler of the command ran on the last character
FlagHandlerRan == \E i \in 1..Len(calls) : calls[i].cmd = flag_cmd

\* C34: the flag packed into the argument is lossless and independent of the
\* argument's value: a command declared with TINYSH_ADMIN_CMD is classified
\* admin-required and its handler observes the declared argument, and a
\* command declared without the macro is never classified admin-required.
C34_FlagLossless ==
  /\ tinysh_is_admin_command(flag_cmd) <=> lib_in.macro
  /\ \A i \in 1..Len(calls) :
        (calls[i].cmd = flag_cmd /\ lib_in.macro) => calls[i].arg = lib_in.arg

\* the same for arguments below 2^24
C34_SmallArgs ==
  lib_in.arg.b3 = 0 =>
    /\ tinysh_is_admin_command(flag_cmd) <=> lib_in.macro
    /\ \A i \in 1..Len(calls) : calls[i].cmd = flag_cmd => calls[i].arg = lib_in.arg

\* the example's reboot command, declared with 0x12345678: after
\* authentication its handler is given 0x345678
C34_ArgTruncated ==
  /\ lib_in.macro /\ lib_in.arg = REBOOT_ARG
  /\ tinysh_auth_level = TINYSH_AUTH_ADMIN
  /\ FlagHandlerRan
  /\ tinysh_arg = Ptr(0, 3430008)

\* a command declared without the macro whose argument has bit 31 set is
\* refused until the user authenticates
C34_PlainRefused ==
  /\ ~lib_in.macro /\ lib_in.arg = Ptr(128, 1)
  /\ fed = <<CR>> /\ dispatch.cmd = flag_cmd
  /\ ~FlagHandlerRan

-----------------------------------------------------------------------------
(* String to number conversion *)

\* unsigned long, scaled from 64 bits
ULONG_BITS == 8
ULONG_MAX  == 2^ULONG_BITS - 1

\* *s-'0', *s+10-'a', *s+10-'A'
HexLower == <<"a", "b", "c", "d", "e", "f">>
HexUpper == <<"A", "B", "C", "D", "E", "F">>
IndexIn(seq, c) == CHOOSE i \in 1..Len(seq) : seq[i] = c
IsHexLetter(c) == \E i \in 1..6 : HexLower[i] = c \/ HexUpper[i] = c
HexLetterValue(c) ==
  IF \E i \in 1..6 : HexLower[i] = c THEN 9 + IndexIn(HexLower, c)
  ELSE 9 + IndexIn(HexUpper, c)

\* the while loop of tinysh_atoxi: res is multiplied before the character is
\* looked at, and the loop is left by break at a character that is no digit
RECURSIVE atoxi_loop(_, _, _)
atoxi_loop(s, ishex, res) ==
  IF s = <<>> THEN res
  ELSE LET base == IF ishex # 0 THEN 16 ELSE 10 IN
       IF res > ULONG_MAX \div base THEN ULONG_MAX
       ELSE LET r == res * base
                c == Head(s)
                isdigit == IsDigit(c) \/ (ishex # 0 /\ IsHexLetter(c))
                digit == IF IsDigit(c) THEN DigitValue(c) ELSE HexLetterValue(c)
            IN IF ~isdigit THEN r
               ELSE IF ULONG_MAX - r < digit THEN ULONG_MAX
                    ELSE atoxi_loop(Tail(s), ishex, r + digit)

\* unsigned long tinysh_atoxi(char *s)
tinysh_atoxi(s) ==
  IF s = <<>> THEN 0
  ELSE IF Len(s) >= 2 /\ s[1] = "0" /\ s[2] = "x" THEN atoxi_loop(Drop(s, 2), 1, 0)
       ELSE atoxi_loop(s, 0, 0)

MaxNum == 5
NumChars == {"0", "1", "2", "9", "x", "a", "F", "Z"}
NumStrings == UNION { [1..n -> NumChars] : n \in 0..MaxNum }

InitAtoxi ==
  /\ InitProgram(1, 1)
  /\ m_sib = <<>> /\ m_in = <<>> /\ m_out = NoMatchCall
  /\ \E s \in NumStrings : lib_in = [op |-> "tinysh_atoxi", s |-> s]
  /\ lib_out = NoLibCall

\* res = tinysh_atoxi(s)
CallAtoxi ==
  /\ lib_in.op = "tinysh_atoxi"
  /\ lib_out' = [op |-> "tinysh_atoxi", res |-> tinysh_atoxi(lib_in.s)]
  /\ UNCHANGED <<cfgVars, shellVars, menuVars, obsVars, m_sib, m_in, m_out, lib_in>>

NextAtoxi == CallAtoxi

SpecAtoxi == InitAtoxi /\ [][NextAtoxi]_vars

\* the number a string denotes: its longest leading run of digits, decimal, or
\* hexadecimal behind the prefix 0x
IsHexString(s) == Len(s) >= 2 /\ s[1] = "0" /\ s[2] = "x"
NumBody(s) == IF IsHexString(s) THEN Drop(s, 2) ELSE s
ValidDigit(s, c) == IsDigit(c) \/ (IsHexString(s) /\ IsHexLetter(c))
RunLength(s) ==
  LET b == NumBody(s)
      ok == { n \in 0..Len(b) : \A i \in 1..n : ValidDigit(s, b[i]) }
  IN CHOOSE n \in ok : \A m \in ok : m <= n
RECURSIVE ValueOf(_, _)
ValueOf(digits, base) ==
  IF digits = <<>> THEN 0
  ELSE LET c == digits[Len(digits)] IN
       ValueOf(Take(digits, Len(digits) - 1), base) * base
         + (IF IsDigit(c) THEN DigitValue(c) ELSE HexLetterValue(c))
Denoted(s) ==
  LET v == ValueOf(Take(NumBody(s), RunLength(s)), IF IsHexString(s) THEN 16 ELSE 10)
  IN IF v > ULONG_MAX THEN ULONG_MAX ELSE v

\* C35: tinysh_atoxi returns the value of the longest leading run of valid
\* digits of its input, 0 for an empty run and ULONG_MAX when the value
\* overflows; the characters after the run do not change the result.
C35_AtoxiValue ==
  lib_out.op = "tinysh_atoxi" => lib_out.res = Denoted(lib_in.s)

\* the same for inputs that end with their digit run
C35_AtoxiDigitsOnly ==
  (lib_out.op = "tinysh_atoxi" /\ RunLength(lib_in.s) = Len(NumBody(lib_in.s)))
    => lib_out.res = Denoted(lib_in.s)

\* "12Z" converted to 120
C35_TrailingCharacter ==
  /\ lib_in.s = <<"1", "2", "Z">>
  /\ lib_out.op = "tinysh_atoxi" /\ lib_out.res = 120

\* "0xFF" converted to 255 and "0xZZ" to 0: the cases of the unit test
C35_HexConverted ==
  /\ lib_in.s = <<"0", "x", "F", "F">>
  /\ lib_out.op = "tinysh_atoxi" /\ lib_out.res = 255

-----------------------------------------------------------------------------
(* Characters typed in menu mode that the navigator leaves to the line      *)
(* editor, and the items that submit the line                               *)

\* the letter of the menu command, typed while a menu is shown
StrayMenuLines == { <<"m">> }
\* Enter, Back, the shortcut of the second item, the letter
StrayKeys == {CR, "q", "1", "m"}

\* the example's menus with the tools menu typing an echo line
InitStray ==
  /\ InitProgramMenus(1, 1, main_menu, EchoCmds, TextMenus(<<"e", SP, "H">>))
  /\ NoMatchRun

KeyStray(c) == MenuPass(c, MenuArgs, StrayMenuLines) /\ fed' = <<c>>

NextStray ==
  \/ \E c \in StrayKeys : KeyShell(c)
  \/ \E c \in StrayKeys : KeyStray(c)

SpecStray == InitStray /\ [][NextStray]_vars

\* C36: in every reachable state with menu mode active the current menu is
\* the menu stored at the top of the navigation stack,
\* menu_stack[menu_stack_idx].
C36_CurrentIsTop ==
  in_menu_mode # 0 =>
    /\ menu_state.menu_stack_idx < MENU_MAX_DEPTH
    /\ menu_state.current_menu =
         menu_state.menu_stack[menu_state.menu_stack_idx + 1]

\* the main menu is shown while the top of the stack is the tools menu: the
\* item "Run ..." of the tools menu was executed with the letter m on the line
C36_RootBelowTop ==
  /\ in_menu_mode # 0 /\ waiting_for_keypress # 0
  /\ menu_state.current_menu = main_menu
  /\ menu_state.menu_stack_idx = 1
  /\ menu_state.menu_stack[2] = tools_menu

-----------------------------------------------------------------------------
(* The arrow-sequence decoder *)

\* the decoder is between ESC and the end of a sequence
Decoding == in_escape_seq # 0
\* the state with the decoder idle
IdleDecoder == [Fresh EXCEPT !.in_escape_seq = 0, !.escape_char_count = 0]

\* C37: the decoder returns to idle as soon as the byte after ESC is not '[':
\* it is between ESC and the end of a sequence only right after ESC or after
\* ESC '[', and a key that follows anything else is handled as the navigator
\* handles it with the decoder idle, whatever was pressed before an
\* acknowledgement or an argument prompt.
C37_DecoderIdles ==
  /\ [](Decoding => fed \in {<<ESC>>, <<"[">>})
  /\ [][(in_menu_mode # 0 /\ fed \notin {<<ESC>>, <<"[">>}) =>
          St' = host_char(IdleDecoder, fed'[1]).S]_vars

\* a sequence that was started is decoded: after ESC '[' the next key ends it
\* (an ESC in that place starts the next sequence)
C37_SequenceEnds ==
  [][(in_menu_mode # 0 /\ Decoding /\ fed = <<"[">> /\ escape_char_count = 1) =>
        /\ escape_char_count' = 0
        /\ in_escape_seq' = IF fed' = <<ESC>> THEN 1 ELSE 0]_vars

\* ESC and then a digit: the digit selected its item and the decoder still
\* waits for the final byte of a sequence
C37_DecoderStuck ==
  /\ Browsing /\ Decoding /\ escape_char_count = 1
  /\ fed = <<"3">>
  /\ menu_state.current_index = 3

\* the decoder waits for a final byte while the navigator awaits the
\* acknowledgement of an item that was executed after ESC
C37_StuckAcrossAck ==
  /\ in_menu_mode # 0 /\ waiting_for_keypress # 0
  /\ Decoding /\ escape_char_count = 1

-----------------------------------------------------------------------------
(* The cursor of the live line *)

AllBlank(s) == \A i \in 1..Len(s) : s[i] = SP

\* C38: between input characters the cursor index equals the length of the
\* live line buffer and is at most BUFFER_SIZE (the buffer is terminated at
\* the index), after any sequence of characters including blank-line
\* submissions, history recalls, help and completion.
C38_CursorAtEnd ==
  /\ cur_index = Len(LiveLine)
  /\ cur_index <= BUFFER_SIZE

\* the cursor is at the end of the line unless the line holds blanks only and
\* the cursor is at its start; the line never exceeds the buffer
C38_CursorAtEndOrBlank ==
  /\ Len(LiveLine) <= BUFFER_SIZE
  /\ \/ cur_index = Len(LiveLine)
     \/ cur_index = 0 /\ AllBlank(LiveLine)

\* a line of one blank was submitted: the blank is still in the buffer, the
\* cursor is at 0
C38_BlankLeft ==
  /\ fed = <<CR>>
  /\ LiveLine = <<SP>>
  /\ cur_index = 0

-----------------------------------------------------------------------------
(* Handlers run by one input character *)

\* C39: each input character fed to the host loop causes at most one
\* invocation of a command handler or menu function, in shell mode and in menu
\* mode alike, the activation of a literal-shell-command item included.
C39_OneHandlerPerCharacter == Len(calls) <= 1

\* Enter on the command item of the tools menu with the letter m on the line:
\* the menu command and then the item's echo command ran
C39_TwoHandlers ==
  /\ fed = <<CR>>
  /\ Len(calls) = 2
  /\ calls[1].fn = "menu_cmd_handler"
  /\ calls[2].fn = "cmd_echo"

-----------------------------------------------------------------------------
(* Recalled lines submitted again *)

\* one-letter lines
ResubLines == { <<"x">>, <<"y">> }
ResubKeys == {CR, BS, CTRLP, CTRLN}

InitResub ==
  /\ \E depth \in {3, 4} : InitProgram(1, depth)
  /\ NoMatchRun

\* the last two of a sequence
LastTwo(s) == IF Len(s) <= 2 THEN s ELSE SubSeq(s, Len(s) - 1, Len(s))

\* one pass of the host loop at the prompt; fed keeps the last two lines that
\* were submitted, each with the ring slot it was submitted from
KeyResub(c) ==
  /\ in_menu_mode = 0
  /\ c \in ResubKeys \/ OnScript(c, ResubLines)
  /\ LET S == host_char(Fresh, c).S
     IN  /\ Becomes(S)
         /\ fed' = IF S.dispatch.line # <<>>
                   THEN LastTwo(Append(fed, [line |-> S.dispatch.line,
                                             slot |-> cur_buf_index]))
                   ELSE fed
  /\ UNCHANGED <<cfgVars, matchVars>>

NextResub == \E c \in {"x", "y"} \cup ResubKeys : KeyResub(c)

SpecResub == InitResub /\ [][NextResub]_vars

\* the state after k history-previous keys
RECURSIVE Previous(_, _)
Previous(S, k) == IF k = 0 THEN S ELSE Previous(host_char(S, CTRLP).S, k - 1)

\* the line s is in a slot of the ring and history-previous brings it back
Recallable(S, s) ==
  /\ \E i \in DOMAIN S.input_buffers : S.input_buffers[i] = s
  /\ \E k \in 1..HISTORY_DEPTH : LiveOf(Previous(S, k)) = s

\* this pass submitted a line and another line was submitted before it
SecondSubmission == dispatch'.line # <<>> /\ Len(fed') = 2

\* C40: with a history ring of three slots or more, after two consecutive
\* submissions s1 then s2, each typed or recalled from the history and
\* submitted again, s1 is still stored in the ring and history-previous
\* recalls it.
C40_PreviousLineKept ==
  [][SecondSubmission => Recallable(St', fed'[1].line)]_vars

\* s1 is kept when s2 is submitted from the slot after the slot of s1 and
\* that slot still holds s1
C40_KeptFromNextSlot ==
  [][(/\ SecondSubmission
      /\ fed'[2].slot = (fed'[1].slot + 1) % HISTORY_DEPTH
      /\ input_buffers[fed'[1].slot] = fed'[1].line)
     => Recallable(St', fed'[1].line)]_vars

\* a submission clears the slot after the one it was made from, nothing else
C40_ClearsNextSlot ==
  [][dispatch'.line # <<>>
     => /\ cur_buf_index' = (cur_buf_index + 1) % HISTORY_DEPTH
        /\ input_buffers' = [input_buffers EXCEPT ![cur_buf_index'] = <<>>]]_vars

\* x then y were submitted, x was recalled with two history-previous keys and
\* submitted again: the slot of y is the live slot and is empty
C40_PreviousLineErased ==
  /\ HISTORY_DEPTH = 3
  /\ Len(fed) = 2
  /\ fed[1] = [line |-> <<"y">>, slot |-> 1]
  /\ fed[2] = [line |-> <<"x">>, slot |-> 0]
  /\ dispatch.line = <<"x">>
  /\ cur_buf_index = 1
  /\ \A i \in DOMAIN input_buffers : input_buffers[i] # <<"y">>

\* y typed after x: both are in the ring
C40_TypedTwice ==
  /\ Len(fed) = 2
  /\ fed[1] = [line |-> <<"x">>, slot |-> 0]
  /\ fed[2] = [line |-> <<"y">>, slot |-> 1]
  /\ dispatch.line = <<"y">>
  /\ input_buffers[0] = <<"x">>
  /\ input_buffers[1] = <<"y">>

====
